---- MODULE Spec2Model ----
(***************************************************************************)
(* TressTime: the Repository / Validator / Service layering of the User,   *)
(* Service, Appointment and Notification stacks, over a relational store   *)
(* whose constraints are the ones declared in the Django models.           *)
(***************************************************************************)
EXTENDS Integers, Sequences, FiniteSets, TLC

VARIABLES users, services, appointments, notifications, now, last, pending

vars == <<users, services, appointments, notifications, now, last, pending>>
tables == <<users, services, appointments, notifications>>

(***************************************************************************)
(* Bounds                                                                  *)
(***************************************************************************)
\* number of distinct well-formed primary keys per table
MaxId == 2
\* last reading of the server clock; every operation reads a later time
MaxClock == 4

(***************************************************************************)
(* Python values                                                           *)
(***************************************************************************)
\* None in a string-typed position
None == "None"
\* None in a primary-key / foreign-key position
NoneId == 0
\* a primary key that is not a UUID (e.g. 'non-existent-id')
BadId == -1
Ids == 1..MaxId

\* datetimes: aware, naive, not a datetime at all, None
Aware(t) == [kind |-> "aware", t |-> t]
Naive(t) == [kind |-> "naive", t |-> t]
NotADatetime == [kind |-> "str", t |-> 0]
NoneT == [kind |-> "None", t |-> 0]
\* a timestamp a client may put in a payload: earlier than every server reading
ClientTime == Aware(0)

\* integers (duration): a number or None
IntV(n) == [none |-> FALSE, n |-> n]
NoneInt == [none |-> TRUE, n |-> 0]

\* decimals (price) as str() prints them: sign, integer part, fraction digits
Dec(neg, ip, fd) == [none |-> FALSE, neg |-> neg, ip |-> ip, fd |-> fd]
NoneDec == [none |-> TRUE, neg |-> FALSE, ip |-> 0, fd |-> <<>>]

\* dict helpers: a payload is a function from a set of keys
Has(data, k) == k \in DOMAIN data
Get(data, k, default) == IF k \in DOMAIN data THEN data[k] ELSE default
Restrict(data, K) == [k \in (K \cap DOMAIN data) |-> data[k]]
Pop(data, k) == [x \in (DOMAIN data) \ {k} |-> data[x]]
Put(data, k, v) == [x \in (DOMAIN data) \cup {k} |-> IF x = k THEN v ELSE data[x]]
EmptyDict == <<>>

(***************************************************************************)
(* Results of a call                                                       *)
(***************************************************************************)
RetEntity(e) == [kind |-> "entity", entity |-> e]
RetNone == [kind |-> "None"]
RetBool(b) == [kind |-> "bool", ok |-> b]
RetAll(s) == [kind |-> "all", rows |-> s]
Raise(exc, msg) == [kind |-> "raise", exc |-> exc, msg |-> msg]

Raised(r) == r.kind = "raise"
IsNoneRes(r) == r.kind = "None"

\* exception classes raised by storage (django.db)
StorageExceptions == {"IntegrityError", "ProtectedError"}

(***************************************************************************)
(* The store: the four tables and the constraints the models declare       *)
(***************************************************************************)
\* the columns the repositories, validators and services name; the other
\* columns of each model are taken as supplied with values storage accepts
UserFields == {"id", "created_at", "updated_at", "username", "email", "password", "first_name"}
ServiceFields == {"id", "created_at", "updated_at", "name", "description", "duration", "price"}
AppointmentFields == {"id", "created_at", "updated_at", "starts_at", "ends_at", "status",
                      "confirmation_number", "user", "service"}
NotificationFields == {"id", "created_at", "updated_at", "message", "user", "appointment"}

\* Field.get_default(): the declared default, else None, else '' for a
\* CharField that is not nullable and declares no default
UserDefaults == [id |-> NoneId, created_at |-> NoneT, updated_at |-> NoneT, username |-> None,
                 email |-> None, password |-> None, first_name |-> ""]
ServiceDefaults == [id |-> NoneId, created_at |-> NoneT, updated_at |-> NoneT, name |-> None,
                    description |-> None, duration |-> NoneInt, price |-> NoneDec]
AppointmentDefaults == [id |-> NoneId, created_at |-> NoneT, updated_at |-> NoneT,
                        starts_at |-> NoneT, ends_at |-> NoneT, status |-> "",
                        confirmation_number |-> None, user |-> NoneId, service |-> NoneId]
NotificationDefaults == [id |-> NoneId, created_at |-> NoneT, updated_at |-> NoneT,
                         message |-> "", user |-> NoneId, appointment |-> NoneId]

\* None, in the type of each field
NoneOf == [id |-> NoneId, created_at |-> NoneT, updated_at |-> NoneT, username |-> None,
           email |-> None, password |-> None, first_name |-> None, name |-> None,
           description |-> None, duration |-> NoneInt, price |-> NoneDec,
           starts_at |-> NoneT, ends_at |-> NoneT, status |-> None,
           confirmation_number |-> None, user |-> NoneId, service |-> NoneId,
           message |-> None, appointment |-> NoneId]

\* Model(**data): every field from the payload, else its default
Build(defaults, data) == [f \in DOMAIN defaults |-> IF f \in DOMAIN data THEN data[f] ELSE defaults[f]]
\* setattr(instance, key, value) for every key of the payload
SetAttrs(row, data) == [f \in DOMAIN row |-> IF f \in DOMAIN data THEN data[f] ELSE row[f]]

PkSet(table) == {r.id : r \in table}
ById(table, id) == {r \in table : r.id = id}
RowOf(table, id) == CHOOSE r \in table : r.id = id

\* null=False columns
UserNotNull(r) ==
    /\ r.created_at # NoneT /\ r.updated_at # NoneT
    /\ r.username # None /\ r.email # None /\ r.password # None
    /\ r.first_name # None
ServiceNotNull(r) ==
    /\ r.created_at # NoneT /\ r.updated_at # NoneT
    /\ r.name # None /\ r.description # None
    /\ r.duration # NoneInt /\ r.price # NoneDec
AppointmentNotNull(r) ==
    /\ r.created_at # NoneT /\ r.updated_at # NoneT
    /\ r.starts_at # NoneT /\ r.ends_at # NoneT /\ r.status # None
    /\ r.user # NoneId /\ r.service # NoneId
NotificationNotNull(r) ==
    /\ r.created_at # NoneT /\ r.updated_at # NoneT
    /\ r.message # None /\ r.user # NoneId

\* variant: email declared without unique=True
UserUnique_email_not_unique(r, others) ==
    \A o \in others : o.id # r.id /\ o.username # r.username
\* unique=True columns (and the primary key) against the other rows
UserUnique(r, others) ==
    \A o \in others : o.id # r.id /\ o.username # r.username /\ o.email # r.email
ServiceUnique(r, others) ==
    \A o \in others : o.id # r.id /\ o.name # r.name
AppointmentUnique(r, others) ==
    \A o \in others :
        /\ o.id # r.id
        /\ (r.confirmation_number # None => o.confirmation_number # r.confirmation_number)
NotificationUnique(r, others) ==
    \A o \in others : o.id # r.id

\* foreign keys name stored rows
AppointmentFk(r, us, ss) == r.user \in PkSet(us) /\ r.service \in PkSet(ss)
NotificationFk(r, us, as) ==
    /\ r.user \in PkSet(us)
    /\ (r.appointment # NoneId => r.appointment \in PkSet(as))

\* variant: foreign keys to the user that do not protect it
UserProtectedBy_unprotected(id, as, ns) == {}
\* on_delete=PROTECT: the rows that block the deletion of a row
UserProtectedBy(id, as, ns) == {a \in as : a.user = id} \cup {n \in ns : n.user = id}
ServiceProtectedBy(id, as) == {a \in as : a.service = id}
AppointmentProtectedBy(id, ns) == {n \in ns : n.appointment = id}

\* auto_now_add / auto_now: DateTimeField.pre_save on INSERT and on UPDATE
StampInsert(r, t) == [r EXCEPT !.created_at = Aware(t), !.updated_at = Aware(t)]
StampUpdate(r, t) == [r EXCEPT !.updated_at = Aware(t)]

\* django.contrib.auth.hashers.make_password: None gives an unusable password
make_password(raw) == IF raw = None THEN "!unusable" ELSE "pbkdf2_sha256$" \o raw
\* AbstractBaseUser.set_password
set_password(row, raw) == [row EXCEPT !.password = make_password(raw)]

(***************************************************************************)
(* ORM calls used by the repositories.  Each yields the outcome and the    *)
(* table afterwards.                                                       *)
(***************************************************************************)
Found(r) == [out |-> "ok", row |-> r]
Failed(exc) == [out |-> exc]

\* Model.objects.get(id=...): the row, DoesNotExist, or ValidationError when
\* the value is not a UUID
objects_get(table, id) ==
    IF id = BadId THEN Failed("ValidationError")
    ELSE IF ById(table, id) = {} THEN Failed("DoesNotExist")
    ELSE Found(RowOf(table, id))

\* the primary key of a new instance: the payload's, else uuid4()
PkChoices(row, table) == IF row.id = NoneId THEN Ids \ PkSet(table) ELSE {row.id}

\* save() of an instance: UPDATE of the row with the instance's primary key,
\* INSERT when no such row exists; the row to write and the rows it is
\* checked against
SavePlan(row, table, t) ==
    LET target == ById(table, row.id)
    IN  [new |-> IF target = {} THEN StampInsert(row, t) ELSE StampUpdate(row, t),
         others |-> table \ target]

Stored(row, others) == [res |-> RetEntity(row), table |-> others \cup {row}]
Unchanged(res, table) == [res |-> res, table |-> table]

(***************************************************************************)
(* UserRepository                                                          *)
(***************************************************************************)
UserOk(r, others) == UserNotNull(r) /\ UserUnique(r, others)

get_user_by_id(id, us) ==
    LET g == objects_get(us, id)
    IN  IF g.out = "ok" THEN RetEntity(g.row) ELSE RetNone

get_all_users(us) == RetAll(us)

\* CustomUser.objects.create(**user_data), then set_password and save()
create_user(data, pk, us, t) ==
    LET row == StampInsert([Build(UserDefaults, data) EXCEPT !.id = pk], t)
    IN  IF ~UserOk(row, us)
        THEN Unchanged(RetNone, us)
        ELSE LET password == data["password"]
             IN  Stored(StampUpdate(set_password(row, password), t), us)

update_user(id, data, partial, us, t) ==
    LET g == objects_get(us, id)
    IN  IF g.out = "DoesNotExist" THEN Unchanged(RetNone, us)
        ELSE IF g.out # "ok" THEN Unchanged(Raise(g.out, "invalid id"), us)
        ELSE LET hashed == IF Has(data, "password")
                           THEN set_password(g.row, data["password"]) ELSE g.row
                 rest == Pop(data, "password")
                 kept == Restrict(rest, {k \in DOMAIN rest : ~(partial /\ rest[k] = NoneOf[k])})
                 p == SavePlan(SetAttrs(hashed, kept), us, t)
             IN  IF UserOk(p.new, p.others) THEN Stored(p.new, p.others)
                 ELSE Unchanged(RetNone, us)

delete_user(id, us, as, ns) ==
    LET g == objects_get(us, id)
    IN  IF g.out = "DoesNotExist" THEN Unchanged(RetBool(FALSE), us)
        ELSE IF g.out # "ok" THEN Unchanged(Raise(g.out, "invalid id"), us)
        ELSE IF UserProtectedBy(id, as, ns) # {}
             THEN Unchanged(Raise("ProtectedError", "protected foreign key"), us)
        ELSE [res |-> RetBool(TRUE), table |-> us \ {g.row}]

(***************************************************************************)
(* ServiceRepository                                                       *)
(***************************************************************************)
ServiceOk(r, others) == ServiceNotNull(r) /\ ServiceUnique(r, others)

get_service_by_id(id, ss) ==
    LET g == objects_get(ss, id)
    IN  IF g.out = "ok" THEN RetEntity(g.row) ELSE RetNone

get_all_services(ss) == RetAll(ss)

\* variant: create without the except IntegrityError clause
create_service_uncaught(data, pk, ss, t) ==
    LET row == StampInsert([Build(ServiceDefaults, data) EXCEPT !.id = pk], t)
    IN  IF ServiceOk(row, ss) THEN Stored(row, ss)
        ELSE Unchanged(Raise("IntegrityError", "constraint failed"), ss)

create_service(data, pk, ss, t) ==
    LET row == StampInsert([Build(ServiceDefaults, data) EXCEPT !.id = pk], t)
    IN  IF ServiceOk(row, ss) THEN Stored(row, ss) ELSE Unchanged(RetNone, ss)

update_service(id, data, ss, t) ==
    LET g == objects_get(ss, id)
    IN  IF g.out = "DoesNotExist" THEN Unchanged(RetNone, ss)
        ELSE IF g.out # "ok" THEN Unchanged(Raise(g.out, "invalid id"), ss)
        ELSE LET p == SavePlan(SetAttrs(g.row, data), ss, t)
             IN  IF ServiceOk(p.new, p.others) THEN Stored(p.new, p.others)
                 ELSE Unchanged(RetNone, ss)

delete_service(id, ss, as) ==
    LET g == objects_get(ss, id)
    IN  IF g.out = "DoesNotExist" THEN Unchanged(RetBool(FALSE), ss)
        ELSE IF g.out # "ok" THEN Unchanged(Raise(g.out, "invalid id"), ss)
        ELSE IF ServiceProtectedBy(id, as) # {}
             THEN Unchanged(Raise("ProtectedError", "protected foreign key"), ss)
        ELSE [res |-> RetBool(TRUE), table |-> ss \ {g.row}]

(***************************************************************************)
(* AppointmentRepository                                                   *)
(***************************************************************************)
AppointmentOk(r, others, us, ss) ==
    AppointmentNotNull(r) /\ AppointmentUnique(r, others) /\ AppointmentFk(r, us, ss)

get_appointment_by_id(id, as) ==
    LET g == objects_get(as, id)
    IN  IF g.out = "ok" THEN RetEntity(g.row) ELSE RetNone

get_all_appointments(as) == RetAll(as)

create_appointment(data, pk, as, us, ss, t) ==
    LET row == StampInsert([Build(AppointmentDefaults, data) EXCEPT !.id = pk], t)
    IN  IF AppointmentOk(row, as, us, ss) THEN Stored(row, as) ELSE Unchanged(RetNone, as)

\* variant: update that sets the attributes and never calls save()
update_appointment_unsaved(id, data, as, us, ss, t) ==
    LET g == objects_get(as, id)
    IN  IF g.out = "DoesNotExist" THEN Unchanged(RetNone, as)
        ELSE IF g.out # "ok" THEN Unchanged(Raise(g.out, "invalid id"), as)
        ELSE Unchanged(RetEntity(SetAttrs(g.row, data)), as)

update_appointment(id, data, as, us, ss, t) ==
    LET g == objects_get(as, id)
    IN  IF g.out = "DoesNotExist" THEN Unchanged(RetNone, as)
        ELSE IF g.out # "ok" THEN Unchanged(Raise(g.out, "invalid id"), as)
        ELSE LET p == SavePlan(SetAttrs(g.row, data), as, t)
             IN  IF AppointmentOk(p.new, p.others, us, ss) THEN Stored(p.new, p.others)
                 ELSE Unchanged(RetNone, as)

delete_appointment(id, as, ns) ==
    LET g == objects_get(as, id)
    IN  IF g.out = "DoesNotExist" THEN Unchanged(RetBool(FALSE), as)
        ELSE IF g.out # "ok" THEN Unchanged(Raise(g.out, "invalid id"), as)
        ELSE IF AppointmentProtectedBy(id, ns) # {}
             THEN Unchanged(Raise("ProtectedError", "protected foreign key"), as)
        ELSE [res |-> RetBool(TRUE), table |-> as \ {g.row}]

(***************************************************************************)
(* NotificationRepository                                                  *)
(***************************************************************************)
NotificationOk(r, others, us, as) ==
    NotificationNotNull(r) /\ NotificationUnique(r, others) /\ NotificationFk(r, us, as)

get_notification_by_id(id, ns) ==
    LET g == objects_get(ns, id)
    IN  IF g.out = "ok" THEN RetEntity(g.row) ELSE RetNone

get_all_notifications(ns) == RetAll(ns)

create_notification(data, pk, ns, us, as, t) ==
    LET row == StampInsert([Build(NotificationDefaults, data) EXCEPT !.id = pk], t)
    IN  IF NotificationOk(row, ns, us, as) THEN Stored(row, ns) ELSE Unchanged(RetNone, ns)

update_notification(id, data, ns, us, as, t) ==
    LET g == objects_get(ns, id)
    IN  IF g.out = "DoesNotExist" THEN Unchanged(RetNone, ns)
        ELSE IF g.out # "ok" THEN Unchanged(Raise(g.out, "invalid id"), ns)
        ELSE LET p == SavePlan(SetAttrs(g.row, data), ns, t)
             IN  IF NotificationOk(p.new, p.others, us, as) THEN Stored(p.new, p.others)
                 ELSE Unchanged(RetNone, ns)

delete_notification(id, ns) ==
    LET g == objects_get(ns, id)
    IN  IF g.out = "DoesNotExist" THEN Unchanged(RetBool(FALSE), ns)
        ELSE IF g.out # "ok" THEN Unchanged(Raise(g.out, "invalid id"), ns)
        ELSE [res |-> RetBool(TRUE), table |-> ns \ {g.row}]

(***************************************************************************)
(* Validators.  A validator returns None or raises.                        *)
(***************************************************************************)
ValidationError(msg) == Raise("ValidationError", msg)
\* a check that passed: run the next one
Then(first, next) == IF Raised(first) THEN first ELSE next

\* characters of a string
CharAt(s, i) == SubSeq(s, i, i)
Chars(s) == {CharAt(s, i) : i \in 1..Len(s)}
UpperCase == {"A", "B", "C", "D", "E", "F", "G", "H", "I", "J", "K", "L", "M", "N", "O", "P",
              "Q", "R", "S", "T", "U", "V", "W", "X", "Y", "Z"}
LowerCase == {"a", "b", "c", "d", "e", "f", "g", "h", "i", "j", "k", "l", "m", "n", "o", "p",
              "q", "r", "s", "t", "u", "v", "w", "x", "y", "z"}
Digits == {"0", "1", "2", "3", "4", "5", "6", "7", "8", "9"}
SpecialChars == {"!", "@", "#", "$", "%", "^", "&", "*", "(", ")", ",", ".", "?", "\"", ":",
                 "{", "}", "|", "<", ">"}

\* Python truth of a string-typed value: None and '' are false
Falsy(s) == s = None \/ s = ""

\* validate_created_at / validate_updated_at (the same in the three validators)
validate_timestamp(name, ts) ==
    IF ts = NoneT THEN ValidationError(name \o " is required.")
    ELSE IF ts.kind = "str" THEN ValidationError(name \o " must be a datetime object.")
    ELSE IF ts.kind = "naive"
         THEN ValidationError(name \o " must be an aware datetime object with timezone information.")
    ELSE RetNone
validate_created_at(created_at) == validate_timestamp("created_at", created_at)
validate_updated_at(updated_at) == validate_timestamp("updated_at", updated_at)

(* -------- UserServiceValidator -------- *)
validate_user_exists(user, user_id) ==
    IF IsNoneRes(user)
    THEN ValidationError("User with ID " \o ToString(user_id) \o " does not exist.")
    ELSE RetNone

validate_username(username, is_update) ==
    IF Falsy(username) /\ ~is_update THEN ValidationError("username is required.")
    ELSE IF Falsy(username) /\ is_update THEN RetNone
    ELSE IF Len(username) < 5 THEN ValidationError("Username must be at least 5 characters long.")
    ELSE RetNone

\* re.match(r"[^@]+@[^@]+\.[^@]+", email): a prefix of the form x@y.z
FirstAt(s) == IF "@" \in Chars(s) THEN CHOOSE i \in 1..Len(s) :
                    CharAt(s, i) = "@" /\ \A j \in 1..(i - 1) : CharAt(s, j) # "@"
              ELSE Len(s) + 1
EmailMatches(s) ==
    LET a == FirstAt(s)
    IN  /\ a >= 2 /\ a <= Len(s)
        /\ \E d \in (a + 2)..(Len(s) - 1) :
              /\ CharAt(s, d) = "."
              /\ \A j \in (a + 1)..(d - 1) : CharAt(s, j) # "@"
              /\ CharAt(s, d + 1) # "@"
\* email.split('@')[1]
EmailDomain(s) ==
    LET rest == SubSeq(s, FirstAt(s) + 1, Len(s))
    IN  SubSeq(rest, 1, FirstAt(rest) - 1)
ALLOWED_EMAIL_DOMAINS == {"gmail.com", "test.com"}

validate_email(email, is_update) ==
    IF Falsy(email) /\ ~is_update THEN ValidationError("email is required.")
    ELSE IF Falsy(email) /\ is_update THEN RetNone
    ELSE IF ~EmailMatches(email) THEN ValidationError("Invalid email address.")
    ELSE IF EmailDomain(email) \notin ALLOWED_EMAIL_DOMAINS
         THEN ValidationError("Email domain is not allowed.")
    ELSE RetNone

\* variant: the lowercase rule tested before the uppercase rule
validate_password_lowercase_first(password, is_update) ==
    IF Falsy(password) /\ ~is_update THEN ValidationError("password is required.")
    ELSE IF Falsy(password) /\ is_update THEN RetNone
    ELSE IF Len(password) < 8 THEN ValidationError("Password must be at least 8 characters long.")
    ELSE IF Chars(password) \cap LowerCase = {}
         THEN ValidationError("Password must contain at least one lowercase letter.")
    ELSE IF Chars(password) \cap UpperCase = {}
         THEN ValidationError("Password must contain at least one uppercase letter.")
    ELSE IF Chars(password) \cap Digits = {}
         THEN ValidationError("Password must contain at least one digit.")
    ELSE IF Chars(password) \cap SpecialChars = {}
         THEN ValidationError("Password must contain at least one special character.")
    ELSE RetNone

validate_password(password, is_update) ==
    IF Falsy(password) /\ ~is_update THEN ValidationError("password is required.")
    ELSE IF Falsy(password) /\ is_update THEN RetNone
    ELSE IF Len(password) < 8 THEN ValidationError("Password must be at least 8 characters long.")
    ELSE IF Chars(password) \cap UpperCase = {}
         THEN ValidationError("Password must contain at least one uppercase letter.")
    ELSE IF Chars(password) \cap LowerCase = {}
         THEN ValidationError("Password must contain at least one lowercase letter.")
    ELSE IF Chars(password) \cap Digits = {}
         THEN ValidationError("Password must contain at least one digit.")
    ELSE IF Chars(password) \cap SpecialChars = {}
         THEN ValidationError("Password must contain at least one special character.")
    ELSE RetNone

\* str.isalpha() over the letters the inputs use
IsAlpha(s) == Len(s) > 0 /\ Chars(s) \subseteq (UpperCase \cup LowerCase)

validate_first_name(first_name) ==
    IF Falsy(first_name) THEN RetNone
    ELSE IF ~IsAlpha(first_name)
         THEN ValidationError("First name must contain only alphabetic characters.")
    ELSE IF Len(first_name) < 1 \/ Len(first_name) > 30
         THEN ValidationError("First name must be between 1 and 30 characters long.")
    ELSE RetNone

validate_last_name(last_name) ==
    IF Falsy(last_name) THEN RetNone
    ELSE IF ~IsAlpha(last_name)
         THEN ValidationError("Last name must contain only alphabetic characters.")
    ELSE IF Len(last_name) < 1 \/ Len(last_name) > 30
         THEN ValidationError("Last name must be between 1 and 30 characters long.")
    ELSE RetNone

\* no payload carries a profile picture: validate_profile_picture returns at once
validate_user_data(user_data, is_update) ==
    Then(IF is_update
         THEN IF Has(user_data, "id") THEN ValidationError("ID cannot be modified.")
              ELSE validate_updated_at(Get(user_data, "updated_at", NoneT))
         ELSE Then(validate_created_at(Get(user_data, "created_at", NoneT)),
                   validate_updated_at(Get(user_data, "updated_at", NoneT))),
    Then(validate_username(Get(user_data, "username", None), is_update),
    Then(validate_email(Get(user_data, "email", None), is_update),
    Then(validate_password(Get(user_data, "password", None), is_update),
    Then(validate_first_name(Get(user_data, "first_name", None)),
         validate_last_name(Get(user_data, "last_name", None)))))))

(* -------- ServiceServiceValidator -------- *)
validate_service_exists(service, service_id) ==
    IF IsNoneRes(service)
    THEN ValidationError("Service with ID " \o ToString(service_id) \o " does not exist.")
    ELSE RetNone

validate_name(name) ==
    IF Falsy(name) THEN ValidationError("Service name is required.")
    ELSE IF Len(name) < 3 THEN ValidationError("Service name must be at least 3 characters long.")
    ELSE IF Len(name) > 150
         THEN ValidationError("Service name must be no greater than 150 characters long.")
    ELSE RetNone

validate_description(description) ==
    IF Falsy(description) THEN ValidationError("Service description is required.")
    ELSE IF Len(description) < 10
         THEN ValidationError("Service description must be at least 10 characters long.")
    ELSE IF Len(description) > 2000
         THEN ValidationError("Service description must be no greater than 2000 characters long.")
    ELSE RetNone

validate_duration(duration) ==
    IF duration.none \/ duration.n = 0 THEN ValidationError("Service duration is required.")
    ELSE IF duration.n <= 10 THEN ValidationError("Service duration must be at least 10 minutes.")
    ELSE IF duration.n > 480
         THEN ValidationError("Service duration must be no greater than 480 minutes.")
    ELSE RetNone

\* a decimal equal to zero
IsZero(price) == price.ip = 0 /\ \A i \in 1..Len(price.fd) : price.fd[i] = 0
\* variant: up to five digits before the point
PriceMatches_five_digits(price) == ~price.neg /\ price.ip <= 99999 /\ Len(price.fd) <= 2

\* re.match(r'^\d{1,3}(\.\d{1,2})?$', str(price))
PriceMatches(price) == ~price.neg /\ price.ip <= 999 /\ Len(price.fd) <= 2

validate_price(price) ==
    IF price.none \/ IsZero(price) THEN ValidationError("Service price is required.")
    ELSE IF price.neg THEN ValidationError("Service price must be a positive number.")
    ELSE IF ~PriceMatches(price)
         THEN ValidationError("Service price must have a maximum of 5 digits with up to 2 decimal places.")
    ELSE RetNone

\* service_data['name'] of a payload without the key raises KeyError
Subscript(data, k) == IF Has(data, k) THEN RetNone ELSE Raise("KeyError", k)

\* variant: an update path that accepts the key 'id'
validate_service_data_id_allowed(service_data, is_update) ==
    Then(IF is_update
         THEN validate_updated_at(Get(service_data, "updated_at", NoneT))
         ELSE Then(validate_created_at(Get(service_data, "created_at", NoneT)),
                   validate_updated_at(Get(service_data, "updated_at", NoneT))),
    Then(Subscript(service_data, "name"),
    Then(validate_name(service_data["name"]),
    Then(Subscript(service_data, "description"),
    Then(validate_description(service_data["description"]),
    Then(Subscript(service_data, "duration"),
    Then(validate_duration(service_data["duration"]),
    Then(Subscript(service_data, "price"),
         validate_price(service_data["price"])))))))))

validate_service_data(service_data, is_update) ==
    Then(IF is_update
         THEN IF Has(service_data, "id") THEN ValidationError("ID cannot be modified.")
              ELSE validate_updated_at(Get(service_data, "updated_at", NoneT))
         ELSE Then(validate_created_at(Get(service_data, "created_at", NoneT)),
                   validate_updated_at(Get(service_data, "updated_at", NoneT))),
    Then(Subscript(service_data, "name"),
    Then(validate_name(service_data["name"]),
    Then(Subscript(service_data, "description"),
    Then(validate_description(service_data["description"]),
    Then(Subscript(service_data, "duration"),
    Then(validate_duration(service_data["duration"]),
    Then(Subscript(service_data, "price"),
         validate_price(service_data["price"])))))))))

(* -------- AppointmentServiceValidator -------- *)
\* variant: an existence check that accepts None
validate_appointment_exists_skipped(appointment, appointment_id) == RetNone

validate_appointment_exists(appointment, appointment_id) ==
    IF IsNoneRes(appointment)
    THEN ValidationError("Appointment with ID " \o ToString(appointment_id) \o " does not exist.")
    ELSE RetNone

\* variant: the comparison written with >=
validate_starts_at_ends_at_strict(starts_at, ends_at) ==
    IF starts_at = NoneT \/ ends_at = NoneT
    THEN ValidationError("Both starts_at and ends_at are required.")
    ELSE IF starts_at.kind = "str" \/ ends_at.kind = "str"
         THEN ValidationError("Both starts_at and ends_at must be datetime objects")
    ELSE IF starts_at.kind = "naive" \/ ends_at.kind = "naive"
         THEN ValidationError("Both starts_at and ends_at must be aware datetime objects with timezone information.")
    ELSE IF starts_at.t >= ends_at.t THEN ValidationError("End time cannot be earlier than end time")
    ELSE RetNone

validate_starts_at_ends_at(starts_at, ends_at) ==
    IF starts_at = NoneT \/ ends_at = NoneT
    THEN ValidationError("Both starts_at and ends_at are required.")
    ELSE IF starts_at.kind = "str" \/ ends_at.kind = "str"
         THEN ValidationError("Both starts_at and ends_at must be datetime objects")
    ELSE IF starts_at.kind = "naive" \/ ends_at.kind = "naive"
         THEN ValidationError("Both starts_at and ends_at must be aware datetime objects with timezone information.")
    ELSE IF starts_at.t > ends_at.t THEN ValidationError("End time cannot be earlier than end time")
    ELSE RetNone

ALLOWED_APPOINTMENT_STATUSES == {"scheduled", "completed", "canceled"}

\* variant: canceled is not an allowed status
validate_status_no_canceled(status) ==
    IF Falsy(status) THEN ValidationError("status is required.")
    ELSE IF status \notin {"scheduled", "completed"}
         THEN ValidationError("status must be one of the following: scheduled, completed, canceled")
    ELSE RetNone

validate_status(status) ==
    IF Falsy(status) THEN ValidationError("status is required.")
    ELSE IF status \notin ALLOWED_APPOINTMENT_STATUSES
         THEN ValidationError("status must be one of the following: scheduled, completed, canceled")
    ELSE RetNone

\* AppointmentRepository defines no get_appointment_by_confirmation_number:
\* the lookup of a non-empty confirmation number raises AttributeError
validate_confirmation_number(confirmation_number, appointment_id) ==
    IF ~Falsy(confirmation_number)
    THEN Raise("AttributeError", "get_appointment_by_confirmation_number")
    ELSE RetNone

\* variant: created_at is validated in update mode as well
validate_appointment_data_created_at_always(appointment_data, is_update) ==
    Then(IF is_update /\ Has(appointment_data, "id") THEN ValidationError("ID cannot be modified.")
         ELSE Then(validate_created_at(Get(appointment_data, "created_at", NoneT)),
                   validate_updated_at(Get(appointment_data, "updated_at", NoneT))),
    Then(validate_starts_at_ends_at(Get(appointment_data, "starts_at", NoneT),
                                    Get(appointment_data, "ends_at", NoneT)),
    Then(validate_status(Get(appointment_data, "status", None)),
         validate_confirmation_number(Get(appointment_data, "confirmation_number", None),
                                      Get(appointment_data, "id", NoneId)))))

validate_appointment_data(appointment_data, is_update) ==
    Then(IF is_update
         THEN IF Has(appointment_data, "id") THEN ValidationError("ID cannot be modified.")
              ELSE validate_updated_at(Get(appointment_data, "updated_at", NoneT))
         ELSE Then(validate_created_at(Get(appointment_data, "created_at", NoneT)),
                   validate_updated_at(Get(appointment_data, "updated_at", NoneT))),
    Then(validate_starts_at_ends_at(Get(appointment_data, "starts_at", NoneT),
                                    Get(appointment_data, "ends_at", NoneT)),
    Then(validate_status(Get(appointment_data, "status", None)),
         validate_confirmation_number(Get(appointment_data, "confirmation_number", None),
                                      Get(appointment_data, "id", NoneId)))))

(***************************************************************************)
(* Services.  Each yields the outcome, the entity's table afterwards, the  *)
(* repository methods called and the payload handed to the validator.      *)
(***************************************************************************)
Outcome(res, table, calls, validated) ==
    [res |-> res, table |-> table, calls |-> calls, validated |-> validated]

\* variant: timestamps the caller supplied are kept
StampCreate_if_missing(data, t) ==
    Put(Put(data, "created_at", Get(data, "created_at", Aware(t))),
        "updated_at", Get(data, "updated_at", Aware(t)))

\* data['created_at'] = data['updated_at'] = make_aware(datetime.now())
StampCreate(data, t) == Put(Put(data, "created_at", Aware(t)), "updated_at", Aware(t))
\* data['updated_at'] = make_aware(datetime.now())
StampModified(data, t) == Put(data, "updated_at", Aware(t))

\* except Exception as e: raise ValidationError(f"Error ...: {e}")
Wrapped(res, msg) == IF Raised(res) THEN ValidationError(msg \o res.exc) ELSE res

(* -------- UserService -------- *)
UserService_get_user(user_id, us) ==
    LET user == get_user_by_id(user_id, us)
        exists == validate_user_exists(user, user_id)
    IN  Outcome(IF Raised(exists) THEN exists ELSE user, us, <<"get_by_id">>, EmptyDict)

UserService_get_all_users(us) == Outcome(get_all_users(us), us, <<"get_all">>, EmptyDict)

\* validate_user_data returns None, so `if not validate_user_data(...)` raises
UserService_create_user(user_data, pk, us, t) ==
    LET stamped == StampCreate(user_data, t)
        valid == validate_user_data(stamped, FALSE)
    IN  IF Raised(valid) THEN Outcome(valid, us, <<>>, stamped)
        ELSE IF IsNoneRes(valid)
             THEN Outcome(ValidationError("Invalid user data provided."), us, <<>>, stamped)
        ELSE LET r == create_user(stamped, pk, us, t)
             IN  Outcome(IF Raised(r.res) THEN Wrapped(r.res, "Error creating user: ") ELSE RetNone,
                         r.table, <<"create">>, stamped)

UserService_update_user(user_id, user_data, us, t) ==
    LET user == get_user_by_id(user_id, us)
        exists == validate_user_exists(user, user_id)
        stamped == StampModified(user_data, t)
        valid == validate_user_data(stamped, TRUE)
        r == update_user(user_id, stamped, FALSE, us, t)
    IN  IF Raised(exists) THEN Outcome(exists, us, <<"get_by_id">>, EmptyDict)
        ELSE IF Raised(valid) THEN Outcome(valid, us, <<"get_by_id">>, stamped)
        ELSE Outcome(Wrapped(r.res, "Error updating user: "), r.table,
                     <<"get_by_id", "update">>, stamped)

UserService_delete_user(user_id, us, as, ns) ==
    LET user == get_user_by_id(user_id, us)
        exists == validate_user_exists(user, user_id)
        r == delete_user(user_id, us, as, ns)
    IN  IF Raised(exists) THEN Outcome(exists, us, <<"get_by_id">>, EmptyDict)
        ELSE Outcome(Wrapped(r.res, "Error deleting user: "), r.table,
                     <<"get_by_id", "delete">>, EmptyDict)

(* -------- ServiceService -------- *)
ServiceService_get_service(service_id, ss) ==
    LET service == get_service_by_id(service_id, ss)
        exists == validate_service_exists(service, service_id)
    IN  Outcome(IF Raised(exists) THEN exists ELSE service, ss, <<"get_by_id">>, EmptyDict)

ServiceService_get_all_services(ss) == Outcome(get_all_services(ss), ss, <<"get_all">>, EmptyDict)

ServiceService_create_service(service_data, pk, ss, t) ==
    LET stamped == StampCreate(service_data, t)
        valid == validate_service_data(stamped, FALSE)
        r == create_service(stamped, pk, ss, t)
    IN  IF Raised(valid) THEN Outcome(valid, ss, <<>>, stamped)
        ELSE Outcome(Wrapped(r.res, "Error creating service: "), r.table, <<"create">>, stamped)

\* variant: the payload is validated before the record is looked up
ServiceService_update_service_validate_first(service_id, service_data, ss, t) ==
    LET service == get_service_by_id(service_id, ss)
        exists == validate_service_exists(service, service_id)
        stamped == StampModified(service_data, t)
        valid == validate_service_data(stamped, TRUE)
        r == update_service(service_id, stamped, ss, t)
    IN  IF Raised(valid) THEN Outcome(valid, ss, <<>>, stamped)
        ELSE IF Raised(exists) THEN Outcome(exists, ss, <<"get_by_id">>, EmptyDict)
        ELSE Outcome(Wrapped(r.res, "Error updating service: "), r.table,
                     <<"get_by_id", "update">>, stamped)

ServiceService_update_service(service_id, service_data, ss, t) ==
    LET service == get_service_by_id(service_id, ss)
        exists == validate_service_exists(service, service_id)
        stamped == StampModified(service_data, t)
        valid == validate_service_data(stamped, TRUE)
        r == update_service(service_id, stamped, ss, t)
    IN  IF Raised(exists) THEN Outcome(exists, ss, <<"get_by_id">>, EmptyDict)
        ELSE IF Raised(valid) THEN Outcome(valid, ss, <<"get_by_id">>, stamped)
        ELSE Outcome(Wrapped(r.res, "Error updating service: "), r.table,
                     <<"get_by_id", "update">>, stamped)

\* variant: delete without the existence check
ServiceService_delete_service_unchecked(service_id, ss, as) ==
    LET r == delete_service(service_id, ss, as)
    IN  Outcome(r.res, r.table, <<"delete">>, EmptyDict)

\* no try/except here: what the repository raises reaches the caller
ServiceService_delete_service(service_id, ss, as) ==
    LET service == get_service_by_id(service_id, ss)
        exists == validate_service_exists(service, service_id)
        r == delete_service(service_id, ss, as)
    IN  IF Raised(exists) THEN Outcome(exists, ss, <<"get_by_id">>, EmptyDict)
        ELSE Outcome(r.res, r.table, <<"get_by_id", "delete">>, EmptyDict)

(* -------- AppointmentService -------- *)
AppointmentService_get_appointment(appointment_id, as) ==
    LET appointment == get_appointment_by_id(appointment_id, as)
        exists == validate_appointment_exists(appointment, appointment_id)
    IN  Outcome(IF Raised(exists) THEN exists ELSE appointment, as, <<"get_by_id">>, EmptyDict)

AppointmentService_get_all_appointments(as) ==
    Outcome(get_all_appointments(as), as, <<"get_all">>, EmptyDict)

\* the repository's result is not returned
AppointmentService_create_appointment(appointment_data, pk, as, us, ss, t) ==
    LET stamped == StampCreate(appointment_data, t)
        valid == validate_appointment_data(stamped, FALSE)
        r == create_appointment(stamped, pk, as, us, ss, t)
    IN  IF Raised(valid) THEN Outcome(valid, as, <<>>, stamped)
        ELSE Outcome(IF Raised(r.res) THEN Wrapped(r.res, "Error creating appointment: ")
                     ELSE RetNone,
                     r.table, <<"create">>, stamped)

AppointmentService_update_appointment(appointment_id, appointment_data, as, us, ss, t) ==
    LET appointment == get_appointment_by_id(appointment_id, as)
        exists == validate_appointment_exists(appointment, appointment_id)
        stamped == StampModified(appointment_data, t)
        valid == validate_appointment_data(stamped, TRUE)
        r == update_appointment(appointment_id, stamped, as, us, ss, t)
    IN  IF Raised(exists) THEN Outcome(exists, as, <<"get_by_id">>, EmptyDict)
        ELSE IF Raised(valid) THEN Outcome(valid, as, <<"get_by_id">>, stamped)
        ELSE Outcome(Wrapped(r.res, "Error updating appointment: "), r.table,
                     <<"get_by_id", "update">>, stamped)

AppointmentService_delete_appointment(appointment_id, as, ns) ==
    LET appointment == get_appointment_by_id(appointment_id, as)
        exists == validate_appointment_exists(appointment, appointment_id)
        r == delete_appointment(appointment_id, as, ns)
    IN  IF Raised(exists) THEN Outcome(exists, as, <<"get_by_id">>, EmptyDict)
        ELSE Outcome(Wrapped(r.res, "Error deleting appointment: "), r.table,
                     <<"get_by_id", "delete">>, EmptyDict)

(***************************************************************************)
(* Inputs: the payloads and ids a caller may pass                          *)
(***************************************************************************)
IdArgs == Ids \cup {BadId}

Payloads(values, keysets) == {Restrict(v, K) : v \in values, K \in keysets}
WithNone(payloads, k) == {Put(d, k, NoneOf[k]) : d \in payloads}

UserValues ==
    [id : Ids, created_at : {ClientTime}, updated_at : {ClientTime},
     username : {"alice", "bobby"}, email : {"alice@gmail.com", "bobby@test.com"},
     password : {"Valid1Password!"}, first_name : {"Jane"}]
UserRequired == {"username", "email", "password"}
UserCreateData ==
    Payloads(UserValues, {UserRequired, UserRequired \ {"password"}, UserRequired \cup {"id"},
                          UserRequired \cup {"created_at", "updated_at"}})
      \cup WithNone(Payloads(UserValues, {UserRequired}), "email")
UserUpdateData ==
    Payloads(UserValues, {{"first_name"}, {"username"}, {"email"}, {"password"}, {"id"},
                          {"created_at"}, {"updated_at"}, {"id", "username", "email"}})
      \cup WithNone(Payloads(UserValues, {{"email"}}), "first_name")

ServiceValues ==
    [id : Ids, created_at : {ClientTime}, updated_at : {ClientTime},
     name : {"Haircut", "Colour"}, description : {"A standard haircut"},
     duration : {IntV(30)}, price : {Dec(FALSE, 25, <<5, 0>>)}]
ServiceRequired == {"name", "description", "duration", "price"}
ServiceCreateData ==
    Payloads(ServiceValues, {ServiceRequired, ServiceRequired \ {"price"}, ServiceRequired \cup {"id"},
                             ServiceRequired \cup {"created_at", "updated_at"}})
      \cup WithNone(Payloads(ServiceValues, {ServiceRequired}), "duration")
ServiceUpdateData ==
    Payloads(ServiceValues, {ServiceRequired, {"name"}, {"id"}, {"created_at"}, {"updated_at"},
                             ServiceRequired \cup {"id"}, ServiceRequired \cup {"created_at"}})
      \cup WithNone(Payloads(ServiceValues, {{"name"}}), "description")

AppointmentValues ==
    [id : Ids, created_at : {ClientTime}, updated_at : {ClientTime},
     starts_at : {Aware(10)}, ends_at : {Aware(11)}, status : {"scheduled"},
     confirmation_number : {"123456789"}, user : Ids, service : Ids]
AppointmentRequired == {"starts_at", "ends_at", "status", "user", "service"}
AppointmentCreateData ==
    Payloads(AppointmentValues,
             {AppointmentRequired, AppointmentRequired \ {"service"},
              AppointmentRequired \cup {"id"}, AppointmentRequired \cup {"confirmation_number"},
              AppointmentRequired \cup {"created_at", "updated_at"}})
      \cup WithNone(Payloads(AppointmentValues, {AppointmentRequired}), "starts_at")
AppointmentUpdateData ==
    Payloads(AppointmentValues,
             {{"starts_at", "ends_at", "status"}, {"status"}, {"confirmation_number"}, {"id"},
              {"created_at"}, {"updated_at"}, {"user"},
              {"starts_at", "ends_at", "status", "id"},
              {"starts_at", "ends_at", "status", "created_at"}})
      \cup WithNone(Payloads(AppointmentValues, {{"status"}}), "ends_at")

\* what AppointmentService is also called with: the times and statuses the
\* validator tells apart
OtherTimes ==
    {<<Aware(11), Aware(11)>>, <<Aware(12), Aware(11)>>, <<Naive(10), Aware(11)>>,
     <<Aware(10), Naive(11)>>, <<NotADatetime, Aware(11)>>, <<Aware(10), NotADatetime>>}
OtherStatuses == {"completed", "canceled", "pending", ""}
WithTimes(payloads) ==
    {Put(Put(d, "starts_at", t[1]), "ends_at", t[2]) : d \in payloads, t \in OtherTimes}
WithStatus(payloads) == {Put(d, "status", st) : d \in payloads, st \in OtherStatuses}
AppointmentServiceCreateData ==
    LET base == Payloads(AppointmentValues, {AppointmentRequired})
    IN  AppointmentCreateData \cup WithTimes(base) \cup WithStatus(base)
AppointmentServiceUpdateData ==
    LET base == Payloads(AppointmentValues, {{"starts_at", "ends_at", "status"}})
    IN  AppointmentUpdateData \cup WithTimes(base) \cup WithStatus(base)
          \cup Payloads(AppointmentValues, {{"starts_at", "ends_at", "status", "confirmation_number"}})

NotificationValues ==
    [id : Ids, created_at : {ClientTime}, updated_at : {ClientTime},
     message : {"Your appointment is confirmed"}, user : Ids, appointment : Ids]
NotificationRequired == {"message", "user"}
NotificationCreateData ==
    Payloads(NotificationValues,
             {NotificationRequired, NotificationRequired \cup {"appointment"},
              NotificationRequired \cup {"id"}, NotificationRequired \ {"user"},
              NotificationRequired \cup {"created_at", "updated_at"}})
      \cup WithNone(Payloads(NotificationValues, {NotificationRequired}), "message")
NotificationUpdateData ==
    Payloads(NotificationValues,
             {{"message"}, {"appointment"}, {"user"}, {"id"}, {"created_at"}, {"updated_at"}})
      \cup WithNone(Payloads(NotificationValues, {{"message"}}), "user")

(***************************************************************************)
(* State machine                                                           *)
(***************************************************************************)
\* the last call: its layer, entity, method, arguments and outcome; for a
\* service call also the repository methods it called, in order, and the
\* payload it handed to the validator
Call(layer, on, op, id, data, partial, res, calls, validated) ==
    [layer |-> layer, on |-> on, op |-> op, id |-> id, data |-> data, partial |-> partial,
     res |-> res, calls |-> calls, validated |-> validated]

Returns(on, op, id, data, res) ==
    last' = Call("repository", on, op, id, data, FALSE, res, <<>>, EmptyDict)

\* the server clock: a call that reads it reads a later time than the last
\* call that did
CanRead == now < MaxClock
Clock == now + 1

\* no call is being answered
NoCall == Call("none", "none", "idle", NoneId, EmptyDict, FALSE, RetNone, <<>>, EmptyDict)
Idle == last = NoCall

\* the callers of the calls that run concurrently, and a caller with no call
\* under way: where the call is, its payload, what the repository returned
\* to it and its outcome
Callers == {1, 2}
NotCalled == [pc |-> "idle", data |-> EmptyDict, made |-> RetNone, res |-> RetNone]

Init ==
    /\ users = {} /\ services = {} /\ appointments = {} /\ notifications = {}
    /\ now = 0
    /\ last = NoCall
    /\ pending = [c \in Callers |-> NotCalled]

\* the caller takes the outcome of the call; the next call can start
Respond ==
    /\ ~Idle
    /\ last' = NoCall
    /\ UNCHANGED <<tables, now, pending>>

(* -------- repository calls -------- *)
RepoGetUser ==
    \E id \in IdArgs :
        /\ Returns("user", "get_by_id", id, EmptyDict, get_user_by_id(id, users))
        /\ UNCHANGED <<tables, now>>

RepoGetAllUsers ==
    /\ Returns("user", "get_all", NoneId, EmptyDict, get_all_users(users))
    /\ UNCHANGED <<tables, now>>

RepoCreateUser ==
    \E data \in UserCreateData :
      \E pk \in PkChoices(Build(UserDefaults, data), users) :
        LET r == create_user(data, pk, users, Clock)
        IN  /\ CanRead
            /\ users' = r.table
            /\ now' = Clock
            /\ Returns("user", "create", NoneId, data, r.res)
            /\ UNCHANGED <<services, appointments, notifications>>

RepoUpdateUser ==
    \E id \in IdArgs, data \in UserUpdateData, partial \in BOOLEAN :
        LET r == update_user(id, data, partial, users, Clock)
        IN  /\ CanRead
            /\ users' = r.table
            /\ now' = Clock
            /\ last' = Call("repository", "user", "update", id, data, partial, r.res, <<>>, EmptyDict)
            /\ UNCHANGED <<services, appointments, notifications>>

RepoDeleteUser ==
    \E id \in IdArgs :
        LET r == delete_user(id, users, appointments, notifications)
        IN  /\ users' = r.table
            /\ Returns("user", "delete", id, EmptyDict, r.res)
            /\ UNCHANGED <<services, appointments, notifications, now>>

RepoGetService ==
    \E id \in IdArgs :
        /\ Returns("service", "get_by_id", id, EmptyDict, get_service_by_id(id, services))
        /\ UNCHANGED <<tables, now>>

RepoGetAllServices ==
    /\ Returns("service", "get_all", NoneId, EmptyDict, get_all_services(services))
    /\ UNCHANGED <<tables, now>>

RepoCreateService ==
    \E data \in ServiceCreateData :
      \E pk \in PkChoices(Build(ServiceDefaults, data), services) :
        LET r == create_service(data, pk, services, Clock)
        IN  /\ CanRead
            /\ services' = r.table
            /\ now' = Clock
            /\ Returns("service", "create", NoneId, data, r.res)
            /\ UNCHANGED <<users, appointments, notifications>>

RepoUpdateService ==
    \E id \in IdArgs, data \in ServiceUpdateData :
        LET r == update_service(id, data, services, Clock)
        IN  /\ CanRead
            /\ services' = r.table
            /\ now' = Clock
            /\ Returns("service", "update", id, data, r.res)
            /\ UNCHANGED <<users, appointments, notifications>>

RepoDeleteService ==
    \E id \in IdArgs :
        LET r == delete_service(id, services, appointments)
        IN  /\ services' = r.table
            /\ Returns("service", "delete", id, EmptyDict, r.res)
            /\ UNCHANGED <<users, appointments, notifications, now>>

RepoGetAppointment ==
    \E id \in IdArgs :
        /\ Returns("appointment", "get_by_id", id, EmptyDict, get_appointment_by_id(id, appointments))
        /\ UNCHANGED <<tables, now>>

RepoGetAllAppointments ==
    /\ Returns("appointment", "get_all", NoneId, EmptyDict, get_all_appointments(appointments))
    /\ UNCHANGED <<tables, now>>

RepoCreateAppointment ==
    \E data \in AppointmentCreateData :
      \E pk \in PkChoices(Build(AppointmentDefaults, data), appointments) :
        LET r == create_appointment(data, pk, appointments, users, services, Clock)
        IN  /\ CanRead
            /\ appointments' = r.table
            /\ now' = Clock
            /\ Returns("appointment", "create", NoneId, data, r.res)
            /\ UNCHANGED <<users, services, notifications>>

RepoUpdateAppointment ==
    \E id \in IdArgs, data \in AppointmentUpdateData :
        LET r == update_appointment(id, data, appointments, users, services, Clock)
        IN  /\ CanRead
            /\ appointments' = r.table
            /\ now' = Clock
            /\ Returns("appointment", "update", id, data, r.res)
            /\ UNCHANGED <<users, services, notifications>>

RepoDeleteAppointment ==
    \E id \in IdArgs :
        LET r == delete_appointment(id, appointments, notifications)
        IN  /\ appointments' = r.table
            /\ Returns("appointment", "delete", id, EmptyDict, r.res)
            /\ UNCHANGED <<users, services, notifications, now>>

RepoGetNotification ==
    \E id \in IdArgs :
        /\ Returns("notification", "get_by_id", id, EmptyDict, get_notification_by_id(id, notifications))
        /\ UNCHANGED <<tables, now>>

RepoGetAllNotifications ==
    /\ Returns("notification", "get_all", NoneId, EmptyDict, get_all_notifications(notifications))
    /\ UNCHANGED <<tables, now>>

RepoCreateNotification ==
    \E data \in NotificationCreateData :
      \E pk \in PkChoices(Build(NotificationDefaults, data), notifications) :
        LET r == create_notification(data, pk, notifications, users, appointments, Clock)
        IN  /\ CanRead
            /\ notifications' = r.table
            /\ now' = Clock
            /\ Returns("notification", "create", NoneId, data, r.res)
            /\ UNCHANGED <<users, services, appointments>>

RepoUpdateNotification ==
    \E id \in IdArgs, data \in NotificationUpdateData :
        LET r == update_notification(id, data, notifications, users, appointments, Clock)
        IN  /\ CanRead
            /\ notifications' = r.table
            /\ now' = Clock
            /\ Returns("notification", "update", id, data, r.res)
            /\ UNCHANGED <<users, services, appointments>>

RepoDeleteNotification ==
    \E id \in IdArgs :
        LET r == delete_notification(id, notifications)
        IN  /\ notifications' = r.table
            /\ Returns("notification", "delete", id, EmptyDict, r.res)
            /\ UNCHANGED <<users, services, appointments, now>>

UserRepositoryNext ==
    \/ RepoGetUser \/ RepoGetAllUsers \/ RepoCreateUser \/ RepoUpdateUser \/ RepoDeleteUser
ServiceRepositoryNext ==
    \/ RepoGetService \/ RepoGetAllServices \/ RepoCreateService \/ RepoUpdateService
    \/ RepoDeleteService
AppointmentRepositoryNext ==
    \/ RepoGetAppointment \/ RepoGetAllAppointments \/ RepoCreateAppointment
    \/ RepoUpdateAppointment \/ RepoDeleteAppointment
NotificationRepositoryNext ==
    \/ RepoGetNotification \/ RepoGetAllNotifications \/ RepoCreateNotification
    \/ RepoUpdateNotification \/ RepoDeleteNotification

\* the repositories called directly, one call at a time
RepoCall ==
    \/ UserRepositoryNext \/ ServiceRepositoryNext
    \/ AppointmentRepositoryNext \/ NotificationRepositoryNext
RepoNext == (Idle /\ RepoCall /\ UNCHANGED pending) \/ Respond

SpecRepo == Init /\ [][RepoNext]_vars

(* -------- service calls -------- *)
SvcGetUser ==
    \E id \in IdArgs :
        LET r == UserService_get_user(id, users)
        IN  /\ last' = Call("service", "user", "get", id, EmptyDict, FALSE, r.res, r.calls, r.validated)
            /\ UNCHANGED <<tables, now>>

SvcGetAllUsers ==
    LET r == UserService_get_all_users(users)
    IN  /\ last' = Call("service", "user", "get_all", NoneId, EmptyDict, FALSE, r.res, r.calls, r.validated)
        /\ UNCHANGED <<tables, now>>

SvcCreateUser ==
    \E data \in UserCreateData :
      \E pk \in PkChoices(Build(UserDefaults, data), users) :
        LET r == UserService_create_user(data, pk, users, Clock)
        IN  /\ CanRead
            /\ users' = r.table
            /\ now' = Clock
            /\ last' = Call("service", "user", "create", NoneId, data, FALSE, r.res, r.calls, r.validated)
            /\ UNCHANGED <<services, appointments, notifications>>

SvcUpdateUser ==
    \E id \in IdArgs, data \in UserUpdateData :
        LET r == UserService_update_user(id, data, users, Clock)
        IN  /\ CanRead
            /\ users' = r.table
            /\ now' = IF r.validated = EmptyDict THEN now ELSE Clock
            /\ last' = Call("service", "user", "update", id, data, FALSE, r.res, r.calls, r.validated)
            /\ UNCHANGED <<services, appointments, notifications>>

SvcDeleteUser ==
    \E id \in IdArgs :
        LET r == UserService_delete_user(id, users, appointments, notifications)
        IN  /\ users' = r.table
            /\ last' = Call("service", "user", "delete", id, EmptyDict, FALSE, r.res, r.calls, r.validated)
            /\ UNCHANGED <<services, appointments, notifications, now>>

SvcGetService ==
    \E id \in IdArgs :
        LET r == ServiceService_get_service(id, services)
        IN  /\ last' = Call("service", "service", "get", id, EmptyDict, FALSE, r.res, r.calls, r.validated)
            /\ UNCHANGED <<tables, now>>

SvcGetAllServices ==
    LET r == ServiceService_get_all_services(services)
    IN  /\ last' = Call("service", "service", "get_all", NoneId, EmptyDict, FALSE, r.res, r.calls, r.validated)
        /\ UNCHANGED <<tables, now>>

SvcCreateService ==
    \E data \in ServiceCreateData :
      \E pk \in PkChoices(Build(ServiceDefaults, data), services) :
        LET r == ServiceService_create_service(data, pk, services, Clock)
        IN  /\ CanRead
            /\ services' = r.table
            /\ now' = Clock
            /\ last' = Call("service", "service", "create", NoneId, data, FALSE, r.res, r.calls, r.validated)
            /\ UNCHANGED <<users, appointments, notifications>>

SvcUpdateService ==
    \E id \in IdArgs, data \in ServiceUpdateData :
        LET r == ServiceService_update_service(id, data, services, Clock)
        IN  /\ CanRead
            /\ services' = r.table
            /\ now' = IF r.validated = EmptyDict THEN now ELSE Clock
            /\ last' = Call("service", "service", "update", id, data, FALSE, r.res, r.calls, r.validated)
            /\ UNCHANGED <<users, appointments, notifications>>

SvcDeleteService ==
    \E id \in IdArgs :
        LET r == ServiceService_delete_service(id, services, appointments)
        IN  /\ services' = r.table
            /\ last' = Call("service", "service", "delete", id, EmptyDict, FALSE, r.res, r.calls, r.validated)
            /\ UNCHANGED <<users, appointments, notifications, now>>

SvcGetAppointment ==
    \E id \in IdArgs :
        LET r == AppointmentService_get_appointment(id, appointments)
        IN  /\ last' = Call("service", "appointment", "get", id, EmptyDict, FALSE, r.res, r.calls, r.validated)
            /\ UNCHANGED <<tables, now>>

SvcGetAllAppointments ==
    LET r == AppointmentService_get_all_appointments(appointments)
    IN  /\ last' = Call("service", "appointment", "get_all", NoneId, EmptyDict, FALSE, r.res, r.calls, r.validated)
        /\ UNCHANGED <<tables, now>>

SvcCreateAppointment ==
    \E data \in AppointmentServiceCreateData :
      \E pk \in PkChoices(Build(AppointmentDefaults, data), appointments) :
        LET r == AppointmentService_create_appointment(data, pk, appointments, users, services, Clock)
        IN  /\ CanRead
            /\ appointments' = r.table
            /\ now' = Clock
            /\ last' = Call("service", "appointment", "create", NoneId, data, FALSE, r.res, r.calls, r.validated)
            /\ UNCHANGED <<users, services, notifications>>

SvcUpdateAppointment ==
    \E id \in IdArgs, data \in AppointmentServiceUpdateData :
        LET r == AppointmentService_update_appointment(id, data, appointments, users, services, Clock)
        IN  /\ CanRead
            /\ appointments' = r.table
            /\ now' = IF r.validated = EmptyDict THEN now ELSE Clock
            /\ last' = Call("service", "appointment", "update", id, data, FALSE, r.res, r.calls, r.validated)
            /\ UNCHANGED <<users, services, notifications>>

SvcDeleteAppointment ==
    \E id \in IdArgs :
        LET r == AppointmentService_delete_appointment(id, appointments, notifications)
        IN  /\ appointments' = r.table
            /\ last' = Call("service", "appointment", "delete", id, EmptyDict, FALSE, r.res, r.calls, r.validated)
            /\ UNCHANGED <<users, services, notifications, now>>

UserServiceNext ==
    \/ SvcGetUser \/ SvcGetAllUsers \/ SvcCreateUser \/ SvcUpdateUser \/ SvcDeleteUser
ServiceServiceNext ==
    \/ SvcGetService \/ SvcGetAllServices \/ SvcCreateService \/ SvcUpdateService
    \/ SvcDeleteService
AppointmentServiceNext ==
    \/ SvcGetAppointment \/ SvcGetAllAppointments \/ SvcCreateAppointment
    \/ SvcUpdateAppointment \/ SvcDeleteAppointment

\* the three services; users come into the store through
\* UserRepository.create_user, as UserService.create_user stores none
ServiceCall ==
    \/ UserServiceNext \/ ServiceServiceNext \/ AppointmentServiceNext
    \/ RepoCreateUser
\* a delete answered True; the caller may call delete again before anything else
Deleted == last.layer = "service" /\ last.op = "delete" /\ last.res = RetBool(TRUE)
ServiceDelete == SvcDeleteUser \/ SvcDeleteService \/ SvcDeleteAppointment
ServiceNext ==
    \/ Idle /\ ServiceCall /\ UNCHANGED pending
    \/ Deleted /\ ServiceDelete /\ UNCHANGED pending
    \/ Respond

SpecService == Init /\ [][ServiceNext]_vars

(* -------- AppointmentService.create_appointment, called concurrently -------- *)
\* the caller's payload is stamped with the server clock
BeginCreateAppointment(c) ==
    /\ pending[c].pc = "idle"
    /\ CanRead
    /\ \E data \in AppointmentCreateData :
          pending' = [pending EXCEPT ![c] = [pc |-> "stamped", data |-> StampCreate(data, Clock),
                                             made |-> RetNone, res |-> RetNone]]
    /\ now' = Clock
    /\ UNCHANGED <<tables, last>>

\* the validator runs; what it raises is the call's outcome
ValidateCreateAppointment(c) ==
    /\ pending[c].pc = "stamped"
    /\ LET valid == validate_appointment_data(pending[c].data, FALSE)
       IN  pending' = [pending EXCEPT ![c] =
                          IF Raised(valid) THEN [@ EXCEPT !.pc = "done", !.res = valid]
                          ELSE [@ EXCEPT !.pc = "validated"]]
    /\ UNCHANGED <<tables, now, last>>

\* the repository's create runs against the store as it is now; the clock
\* has not ticked since the payload was stamped or a later call began
PersistCreateAppointment(c) ==
    /\ pending[c].pc = "validated"
    /\ \E pk \in PkChoices(Build(AppointmentDefaults, pending[c].data), appointments) :
          LET r == create_appointment(pending[c].data, pk, appointments, users, services, now)
          IN  /\ appointments' = r.table
              /\ pending' = [pending EXCEPT ![c] =
                     [@ EXCEPT !.pc = "done", !.made = r.res,
                               !.res = IF Raised(r.res)
                                       THEN Wrapped(r.res, "Error creating appointment: ")
                                       ELSE RetNone]]
    /\ UNCHANGED <<users, services, notifications, now, last>>

\* the store after UserRepository.create_user and then
\* ServiceRepository.create_service have each stored one record
SeedUsers ==
    create_user([username |-> "alice", email |-> "alice@gmail.com", password |-> "Valid1Password!"],
                1, {}, 1).table
SeedServices ==
    create_service([name |-> "Haircut", description |-> "A standard haircut",
                    duration |-> IntV(30), price |-> Dec(FALSE, 25, <<5, 0>>)], 1, {}, 2).table

InitConcurrent ==
    /\ users = SeedUsers /\ services = SeedServices
    /\ appointments = {} /\ notifications = {}
    /\ now = 2
    /\ last = NoCall
    /\ pending = [c \in Callers |-> NotCalled]

\* the callers run AppointmentService.create_appointment step by step
ConcurrentNext ==
    \/ \E c \in Callers : BeginCreateAppointment(c)
    \/ \E c \in Callers : ValidateCreateAppointment(c)
    \/ \E c \in Callers : PersistCreateAppointment(c)

SpecConcurrent == InitConcurrent /\ [][ConcurrentNext]_vars

(* -------- CustomUserViewSet -------- *)
\* Response(data, status=...)
Response(status, body) == [kind |-> "response", status |-> status, body |-> body]

\* def update_user(self, user_id, user_data): the keyword arguments it binds
UserService_update_user_keywords == {"user_id", "user_data"}

\* update(self, request, pk=None, partial=False): get_user is called outside
\* the try; update_user is called with the keyword partial=partial
CustomUserViewSet_update(pk, user_data, partial, us, t) ==
    LET got == UserService_get_user(pk, us)
        r == IF {"partial"} \subseteq UserService_update_user_keywords
             THEN UserService_update_user(pk, user_data, us, t)
             ELSE Outcome(Raise("TypeError", "update_user() got an unexpected keyword argument 'partial'"),
                          us, <<>>, EmptyDict)
    IN  IF Raised(got.res) THEN Outcome(got.res, us, got.calls, EmptyDict)
        ELSE IF Raised(r.res)
             THEN Outcome(Response(400, r.res), r.table, got.calls \o r.calls, r.validated)
        ELSE Outcome(Response(200, r.res), r.table, got.calls \o r.calls, r.validated)

\* the body of a PUT, and of a PATCH
UserPutData == Payloads(UserValues, {{"username", "email", "first_name"}})
ViewUpdateUser ==
    \E pk \in IdArgs, data \in UserUpdateData \cup UserPutData, partial \in BOOLEAN :
        LET r == CustomUserViewSet_update(pk, data, partial, users, Clock)
        IN  /\ CanRead
            /\ users' = r.table
            /\ now' = IF r.validated = EmptyDict THEN now ELSE Clock
            /\ last' = Call("view", "user", "update", pk, data, partial, r.res, r.calls, r.validated)
            /\ UNCHANGED <<services, appointments, notifications>>

\* requests to the users endpoint, on users UserRepository.create_user stored
ViewNext ==
    \/ Idle /\ ViewUpdateUser /\ UNCHANGED pending
    \/ Idle /\ RepoCreateUser /\ UNCHANGED pending
    \/ Respond

SpecView == Init /\ [][ViewNext]_vars

(* -------- validator methods called on their own -------- *)
Validates(on, op, data, res) ==
    /\ last' = Call("validator", on, op, NoneId, data, FALSE, res, <<>>, EmptyDict)
    /\ UNCHANGED <<tables, now, pending>>

\* prices as str() writes them: up to six digits, up to three decimals
Prices ==
    {NoneDec} \cup
    {Dec(neg, ip, fd) : neg \in BOOLEAN, ip \in {0, 1, 12, 123, 999, 1000, 1234, 12345, 123456},
                        fd \in {<<>>, <<0>>, <<5>>, <<0, 0>>, <<3, 4>>, <<4, 5>>, <<0, 0, 0>>,
                                <<5, 6, 7>>, <<6, 7, 8>>}}
ValidatePrice == \E price \in Prices :
    Validates("service", "validate_price", [price |-> price], validate_price(price))

\* passwords: upper-case, lower-case, digit and other characters, each part
\* absent, short or long; and the passwords of the tests
Passwords ==
    {None, "Short1!", "lowercase1!", "Valid1Password!"} \cup
    {up \o lo \o di \o sp : up \in {"", "A", "ABCD"}, lo \in {"", "b", "bcde"},
                            di \in {"", "1", "1234"}, sp \in {"", "!", "-", "?{}|"}}
ValidatePassword == \E password \in Passwords, is_update \in BOOLEAN :
    Validates("user", "validate_password", [password |-> password, is_update |-> is_update],
              validate_password(password, is_update))

\* validate_<entity>_data(data, is_update)
validate_data(on, data, is_update) ==
    CASE on = "user" -> validate_user_data(data, is_update)
      [] on = "service" -> validate_service_data(data, is_update)
      [] on = "appointment" -> validate_appointment_data(data, is_update)

\* payloads whose other fields pass, and payloads with no other field, with
\* created_at and updated_at each absent, None, aware, naive or no datetime
TimeValues == {NoneT, Aware(1), Naive(1), NotADatetime}
WithTime(payloads, k) == payloads \cup {Put(d, k, t) : d \in payloads, t \in TimeValues}
PassingData ==
    [user |-> [username |-> "alice", email |-> "alice@gmail.com", password |-> "Valid1Password!"],
     service |-> [name |-> "Haircut", description |-> "A standard haircut",
                  duration |-> IntV(30), price |-> Dec(FALSE, 25, <<5, 0>>)],
     appointment |-> [starts_at |-> Aware(10), ends_at |-> Aware(11), status |-> "scheduled"]]
TimestampedData(on) == WithTime(WithTime({PassingData[on], EmptyDict}, "created_at"), "updated_at")
ValidateData == \E on \in DOMAIN PassingData, is_update \in BOOLEAN :
    \E data \in TimestampedData(on) :
        Validates(on, "validate_data", [data |-> data, is_update |-> is_update],
                  validate_data(on, data, is_update))

\* durations in minutes, around the two limits
Durations == {NoneInt} \cup {IntV(n) : n \in {0, 1, 9, 10, 11, 30, 479, 480, 481, 1000}}
ValidateDuration == \E duration \in Durations :
    Validates("service", "validate_duration", [duration |-> duration], validate_duration(duration))

ValidatorNext ==
    \/ Idle /\ ValidatePrice
    \/ Idle /\ ValidateDuration
    \/ Idle /\ ValidateData
    \/ Idle /\ ValidatePassword
    \/ Respond

SpecValidator == Init /\ [][ValidatorNext]_vars

(* -------- AppointmentService.update_appointment beside delete_appointment -------- *)
\* appointment = get_appointment_by_id(id); validate_appointment_exists(...);
\* appointment_data['updated_at'] = now
CheckUpdateAppointment(c) ==
    /\ pending[c].pc = "idle"
    /\ CanRead
    /\ \E id \in IdArgs, data \in AppointmentServiceUpdateData :
          LET appointment == get_appointment_by_id(id, appointments)
              exists == validate_appointment_exists(appointment, id)
          IN  IF Raised(exists)
              THEN /\ pending' = [pending EXCEPT ![c] = [pc |-> "done", data |-> data,
                                                      made |-> appointment, res |-> exists]]
                   /\ now' = now
              ELSE /\ pending' = [pending EXCEPT ![c] =
                                     [pc |-> "checked", data |-> StampModified(data, Clock),
                                      made |-> appointment, res |-> RetNone]]
                   /\ now' = Clock
    /\ UNCHANGED <<tables, last>>

\* validate_appointment_data(data, is_update=True), then
\* return appointment_repository.update_appointment(id, data) inside the try
FinishUpdateAppointment(c) ==
    /\ pending[c].pc = "checked"
    /\ LET valid == validate_appointment_data(pending[c].data, TRUE)
           r == update_appointment(pending[c].made.entity.id, pending[c].data,
                                   appointments, users, services, now)
       IN  IF Raised(valid)
           THEN /\ pending' = [pending EXCEPT ![c] = [@ EXCEPT !.pc = "done", !.res = valid]]
                /\ appointments' = appointments
           ELSE /\ pending' = [pending EXCEPT ![c] =
                                  [@ EXCEPT !.pc = "done",
                                            !.res = Wrapped(r.res, "Error updating appointment: ")]]
                /\ appointments' = r.table
    /\ UNCHANGED <<users, services, notifications, now, last>>

\* one appointment of the seeded user and service is stored
SeedAppointments ==
    create_appointment([starts_at |-> Aware(10), ends_at |-> Aware(11), status |-> "scheduled",
                        user |-> 1, service |-> 1], 1, {}, SeedUsers, SeedServices, 3).table

InitUpdateRace ==
    /\ users = SeedUsers /\ services = SeedServices /\ appointments = SeedAppointments
    /\ notifications = {}
    /\ now = 3
    /\ last = NoCall
    /\ pending = [c \in Callers |-> NotCalled]

UpdateRaceNext ==
    \/ Idle /\ \E c \in Callers : CheckUpdateAppointment(c)
    \/ Idle /\ \E c \in Callers : FinishUpdateAppointment(c)
    \/ Idle /\ SvcDeleteAppointment /\ UNCHANGED pending
    \/ Respond

SpecUpdateRace == InitUpdateRace /\ [][UpdateRaceNext]_vars

(* -------- AppointmentService on an appointment that has a confirmation number -------- *)
SeedNumbered ==
    create_appointment([starts_at |-> Aware(10), ends_at |-> Aware(11), status |-> "scheduled",
                        confirmation_number |-> "123456789", user |-> 1, service |-> 1],
                       1, {}, SeedUsers, SeedServices, 3).table

InitNumbered ==
    /\ users = SeedUsers /\ services = SeedServices /\ appointments = SeedNumbered
    /\ notifications = {}
    /\ now = 3
    /\ last = NoCall
    /\ pending = [c \in Callers |-> NotCalled]

NumberedNext ==
    \/ Idle /\ AppointmentServiceNext /\ UNCHANGED pending
    \/ Respond

SpecNumbered == InitNumbered /\ [][NumberedNext]_vars

(* -------- UserRepository.create_user, statement by statement -------- *)
\* user = CustomUser.objects.create(**user_data): the row is inserted as the
\* payload gives it; IntegrityError is caught and None returned
InsertUser(c) ==
    /\ pending[c].pc = "idle"
    /\ CanRead
    /\ \E data \in UserCreateData :
        \E pk \in PkChoices(Build(UserDefaults, data), users) :
          LET row == StampInsert([Build(UserDefaults, data) EXCEPT !.id = pk], Clock)
          IN  IF UserOk(row, users)
              THEN /\ users' = users \cup {row}
                   /\ pending' = [pending EXCEPT ![c] = [pc |-> "created", data |-> data,
                                                      made |-> RetEntity(row), res |-> RetNone]]
              ELSE /\ users' = users
                   /\ pending' = [pending EXCEPT ![c] = [pc |-> "done", data |-> data,
                                                      made |-> RetNone, res |-> RetNone]]
    /\ now' = Clock
    /\ UNCHANGED <<services, appointments, notifications, last>>

\* password = user_data.pop('password'); user.set_password(password);
\* user.save(); return user -- outside the try
HashAndSaveUser(c) ==
    /\ pending[c].pc = "created"
    /\ CanRead
    /\ LET user == set_password(pending[c].made.entity, pending[c].data["password"])
           p == SavePlan(user, users, Clock)
       IN  IF UserOk(p.new, p.others)
           THEN /\ users' = p.others \cup {p.new}
                /\ pending' = [pending EXCEPT ![c] = [@ EXCEPT !.pc = "done", !.res = RetEntity(p.new)]]
           ELSE /\ users' = users
                /\ pending' = [pending EXCEPT ![c] =
                                  [@ EXCEPT !.pc = "done", !.res = Raise("IntegrityError", "duplicate key")]]
    /\ now' = Clock
    /\ UNCHANGED <<services, appointments, notifications, last>>

\* each caller runs create_user once, side by side with update_user and get
UserStepsNext ==
    \/ Idle /\ \E c \in Callers : InsertUser(c)
    \/ Idle /\ \E c \in Callers : HashAndSaveUser(c)
    \/ Idle /\ RepoUpdateUser /\ UNCHANGED pending
    \/ Idle /\ RepoGetUser /\ UNCHANGED pending
    \/ Respond

SpecUserSteps == Init /\ [][UserStepsNext]_vars

(***************************************************************************)
(* Repository contract                                                     *)
(***************************************************************************)
TableOf == [user |-> users, service |-> services, appointment |-> appointments,
            notification |-> notifications]

RepoStep(op) == last'.layer = "repository" /\ last'.op = op
Returned == last'.res
Before == TableOf[last'.on]
After == TableOf'[last'.on]

\* C1: no repository operation lets a storage exception (IntegrityError,
\* ProtectedError) escape to its caller
C1_NoStorageExceptionEscapes ==
    (last.layer = "repository" /\ Raised(last.res)) => last.res.exc \notin StorageExceptions

\* C2: repository create returns the newly stored entity, or None; when it
\* returns None no record was added and the store is as before the call
C2_CreateReturnsEntityOrNone ==
    [][RepoStep("create") =>
        /\ Returned.kind \in {"entity", "None"}
        /\ Returned.kind = "None" => tables' = tables
        /\ Returned.kind = "entity" =>
              /\ Returned.entity \notin Before
              /\ After = Before \cup {Returned.entity}
              /\ \A e \in DOMAIN TableOf : e # last'.on => TableOf'[e] = TableOf[e]]_vars

\* C2 witness: a create refused by storage while the table holds rows
C2_Witness ==
    /\ last.layer = "repository" /\ last.op = "create" /\ IsNoneRes(last.res)
    /\ TableOf[last.on] # {}

\* the value the stored record carries for a key of an update payload
Written(on, k, data, partial, old) ==
    IF partial /\ k # "password" /\ data[k] = NoneOf[k] THEN old[k]
    ELSE IF on = "user" /\ k = "password" THEN make_password(data[k])
    ELSE data[k]

C4_DeleteTrueIffExisted ==
    [][(RepoStep("delete") /\ last'.id # BadId) =>
        IF ById(Before, last'.id) # {}
        THEN /\ Returned = RetBool(TRUE)
             /\ After = Before \ ById(Before, last'.id)
             /\ \A e \in DOMAIN TableOf : e # last'.on => TableOf'[e] = TableOf[e]
        ELSE Returned = RetBool(FALSE) /\ tables' = tables]_vars

(***************************************************************************)
(* Service contract                                                        *)
(***************************************************************************)
SvcStep(op) == last'.layer = "service" /\ last'.op = op
EntityName == [user |-> "User", service |-> "Service", appointment |-> "Appointment"]
NotFound(on, id) ==
    ValidationError(EntityName[on] \o " with ID " \o ToString(id) \o " does not exist.")
Absent == ById(Before, last'.id) = {}

\* C5: calling Service.delete twice on the same id, the first call removes the
\* record and reports success, the second returns False instead of raising,
\* and the store after the second call is the store after the first
C5_SecondDeleteReturnsFalse ==
    [][SvcStep("delete") =>
        /\ Returned = RetBool(TRUE) => ById(After, last'.id) = {}
        /\ (Deleted /\ last.on = last'.on /\ last.id = last'.id) =>
              Returned = RetBool(FALSE) /\ tables' = tables]_vars

\* C6: Service.get on an id with no stored record raises "<Entity> with ID <id>
\* does not exist."; on an id with a stored record it returns that record; the
\* store is unchanged in both cases
C6_GetRaisesNotFoundOrReturnsRecord ==
    [][SvcStep("get") =>
        /\ tables' = tables
        /\ IF Absent THEN Returned = NotFound(last'.on, last'.id)
           ELSE Returned = RetEntity(RowOf(Before, last'.id))]_vars

\* C6 witness: a get that raised not-found while the table holds a record
C6_Witness ==
    /\ last.layer = "service" /\ last.op = "get" /\ last.id \in Ids
    /\ last.res = NotFound(last.on, last.id)
    /\ TableOf[last.on] # {}

IdRejected == ValidationError("ID cannot be modified.")

\* C8 as stated: an update whose payload contains the key 'id' is always
\* rejected with "ID cannot be modified.", whatever the other fields are, and
\* the store is unchanged
C8_IdInPayloadAlwaysRejected ==
    [][(SvcStep("update") /\ Has(last'.data, "id")) =>
        Returned = IdRejected /\ tables' = tables]_vars

\* C8 amended: a Service.update whose payload contains the key 'id' is
\* rejected with "ID cannot be modified." when a record with the given id is
\* stored, and with the not-found failure when none is; in both cases only the
\* repository's get-by-id was called and the store is unchanged; no
\* Service.update changes the ids of the stored records
C8_IdNeverModified ==
    [][SvcStep("update") =>
        /\ PkSet(After) = PkSet(Before)
        /\ Has(last'.data, "id") =>
              /\ Returned = IF Absent THEN NotFound(last'.on, last'.id) ELSE IdRejected
              /\ last'.calls = <<"get_by_id">>
              /\ tables' = tables]_vars

\* C8 witness: an update of a stored record, carrying another id besides
\* fields that are valid, was rejected
C8_Witness ==
    /\ last.layer = "service" /\ last.op = "update" /\ last.res = IdRejected
    /\ ById(TableOf[last.on], last.id) # {}
    /\ Has(last.data, "id") /\ last.data["id"] # last.id
    /\ DOMAIN last.data # {"id"}

\* C9: after any Service.update, with any payload, the stored created_at of
\* every record is the value stamped when the record was created
C9_CreatedAtNeverChanges ==
    [][SvcStep("update") =>
        \A r \in After : \A old \in ById(Before, r.id) : r.created_at = old.created_at]_vars

\* the validator of an entity's service, on a create
ValidatorVerdict(on, data) ==
    CASE on = "user" -> validate_user_data(data, FALSE)
      [] on = "service" -> validate_service_data(data, FALSE)
      [] on = "appointment" -> validate_appointment_data(data, FALSE)

\* C10: Service.create stamps, validates, persists, in that order: the payload
\* handed to the validator carries the server clock as created_at and
\* updated_at whatever the caller supplied, and is otherwise the caller's;
\* when the validator raises, the repository's create is not called and the
\* store is unchanged
C10_StampValidatePersist ==
    [][SvcStep("create") =>
        LET v == last'.validated
        IN  /\ DOMAIN v = DOMAIN last'.data \cup {"created_at", "updated_at"}
            /\ v["created_at"] = Aware(now') /\ v["updated_at"] = Aware(now')
            /\ \A k \in DOMAIN last'.data \ {"created_at", "updated_at"} : v[k] = last'.data[k]
            /\ Raised(ValidatorVerdict(last'.on, v)) =>
                  /\ Returned = ValidatorVerdict(last'.on, v)
                  /\ last'.calls = <<>>
                  /\ tables' = tables
            /\ last'.calls \in {<<>>, <<"create">>}
            /\ last'.calls = <<>> => tables' = tables]_vars

\* C10 witness: a create whose caller supplied created_at was stamped with
\* the server clock and persisted
C10_Witness ==
    /\ last.layer = "service" /\ last.op = "create" /\ last.calls = <<"create">>
    /\ Has(last.data, "created_at") /\ last.data["created_at"] # Aware(now)
    /\ \E r \in TableOf[last.on] : r.created_at = Aware(now)

\* the validator of an entity's service, on an update
UpdateVerdict(on, data) ==
    CASE on = "user" -> validate_user_data(data, TRUE)
      [] on = "service" -> validate_service_data(data, TRUE)
      [] on = "appointment" -> validate_appointment_data(data, TRUE)

\* C11: Service.update checks existence, refreshes updated_at, validates with
\* the update-mode rules, persists, in that order: an absent id is reported
\* as not-found whatever the payload is, the payload handed to the validator
\* carries the server clock as updated_at, and when the validator raises, the
\* repository's update is not called and the store is unchanged
C11_UpdateChecksStampsValidatesPersists ==
    [][SvcStep("update") =>
        IF Absent
        THEN /\ Returned = NotFound(last'.on, last'.id)
             /\ last'.calls = <<"get_by_id">>
             /\ last'.validated = EmptyDict
             /\ tables' = tables
        ELSE LET v == last'.validated
                 verdict == UpdateVerdict(last'.on, v)
             IN  /\ DOMAIN v = DOMAIN last'.data \cup {"updated_at"}
                 /\ v["updated_at"] = Aware(now')
                 /\ \A k \in DOMAIN last'.data \ {"updated_at"} : v[k] = last'.data[k]
                 /\ Raised(verdict) =>
                       /\ Returned = verdict
                       /\ last'.calls = <<"get_by_id">>
                       /\ tables' = tables
                 /\ ~Raised(verdict) => last'.calls = <<"get_by_id", "update">>]_vars

\* C11 witness: an update of a stored record whose payload the validator
\* refused for a reason other than the key 'id'
C11_Witness ==
    /\ last.layer = "service" /\ last.op = "update"
    /\ ById(TableOf[last.on], last.id) # {}
    /\ Raised(last.res) /\ last.res # IdRejected
    /\ last.calls = <<"get_by_id">> /\ last.validated # EmptyDict

\* C12: every failure that escapes a Service-layer operation is a
\* ValidationError; no other exception raised by a validator or a repository
\* reaches the caller
C12_OnlyValidationErrorEscapes ==
    (last.layer = "service" /\ Raised(last.res)) => last.res.exc = "ValidationError"

(***************************************************************************)
(* Concurrent creates                                                      *)
(***************************************************************************)
CreationError(r) ==
    /\ Raised(r) /\ r.exc = "ValidationError"
    /\ Len(r.msg) >= 27 /\ SubSeq(r.msg, 1, 27) = "Error creating appointment:"

\* two finished calls whose payloads carry the same confirmation number and
\* name a stored user and a stored service
SameNumberRace(c, d) ==
    /\ c # d /\ pending[c].pc = "done" /\ pending[d].pc = "done"
    /\ Has(pending[c].data, "confirmation_number") /\ Has(pending[d].data, "confirmation_number")
    /\ pending[c].data["confirmation_number"] = pending[d].data["confirmation_number"]
    /\ \A x \in {c, d} : /\ pending[x].data["user"] \in PkSet(users)
                         /\ pending[x].data["service"] \in PkSet(services)

\* C13: of two concurrent create_appointment calls with the same confirmation
\* number both can pass the validator, one appointment is stored, and the
\* call that loses at the storage constraint ends in a creation error
C13_RaceLoserGetsCreationError ==
    \A c, d \in Callers :
        SameNumberRace(c, d) =>
            \E w \in {c, d} :
                /\ pending[w].made.kind = "entity"
                /\ \A l \in {c, d} \ {w} :
                      pending[l].made.kind # "entity" /\ CreationError(pending[l].res)

(***************************************************************************)
(* Store invariants                                                        *)
(***************************************************************************)
\* C14: in every reachable state the user and the service of every stored
\* Appointment, and the user of every stored Notification, are stored
\* records: a delete of a referenced User or Service removes nothing
C14_ReferencesAreStored ==
    /\ \A a \in appointments : a.user \in PkSet(users) /\ a.service \in PkSet(services)
    /\ \A n \in notifications : n.user \in PkSet(users)

\* C14 witness: a delete of a user that an appointment references was
\* attempted, and the user is still stored
C14_Witness ==
    /\ last.layer = "repository" /\ last.on = "user" /\ last.op = "delete"
    /\ \E a \in appointments : a.user = last.id
    /\ ById(users, last.id) # {}

\* the columns declared unique, the primary key included
UniqueFields == [user |-> {"id", "username", "email"}, service |-> {"id", "name"},
                 appointment |-> {"id", "confirmation_number"}]
NoDuplicates(on) ==
    \A r1, r2 \in TableOf[on] :
        r1 # r2 => \A f \in UniqueFields[on] : r1[f] # r2[f] \/ r1[f] = NoneOf[f]
\* the unique columns in which a create payload repeats a stored value
DuplicatedFields(on, data, table) ==
    {f \in UniqueFields[on] \cap DOMAIN data :
        data[f] # NoneOf[f] /\ \E o \in table : o[f] = data[f]}

AppointmentValidated ==
    /\ last.layer = "service" /\ last.on = "appointment" /\ last.op \in {"create", "update"}
    /\ last.validated # EmptyDict

\* C16: the validator's confirmation-number check does not raise for a
\* 9-digit confirmation number that no stored appointment carries
C16_FreshNumberAccepted ==
    (/\ AppointmentValidated
     /\ Has(last.validated, "confirmation_number")
     /\ last.validated["confirmation_number"] # None
     /\ Len(last.validated["confirmation_number"]) = 9
     /\ \A a \in appointments : a.confirmation_number # last.validated["confirmation_number"])
    => ~Raised(validate_confirmation_number(last.validated["confirmation_number"],
                                            Get(last.validated, "id", NoneId)))

\* the payload reached validate_starts_at_ends_at: the checks that come
\* before it in validate_appointment_data passed
TimesChecked == AppointmentValidated /\ ~(last.op = "update" /\ Has(last.validated, "id"))
StartsAt == Get(last.validated, "starts_at", NoneT)
EndsAt == Get(last.validated, "ends_at", NoneT)
TimesRequired == ValidationError("Both starts_at and ends_at are required.")
TimesNotDatetime == ValidationError("Both starts_at and ends_at must be datetime objects")
TimesNotAware ==
    ValidationError("Both starts_at and ends_at must be aware datetime objects with timezone information.")
EndsBeforeStart == ValidationError("End time cannot be earlier than end time")

\* C17: the appointment validator rejects starts_at > ends_at and accepts
\* starts_at = ends_at; a missing, non-datetime or naive starts_at or ends_at
\* is rejected before the two are compared; every appointment stored through
\* AppointmentService has aware starts_at <= ends_at
C17_StartsNotAfterEnds ==
    /\ \A a \in appointments :
          /\ a.starts_at.kind = "aware" /\ a.ends_at.kind = "aware"
          /\ a.starts_at.t <= a.ends_at.t
    /\ TimesChecked =>
          IF StartsAt = NoneT \/ EndsAt = NoneT THEN last.res = TimesRequired
          ELSE IF StartsAt.kind = "str" \/ EndsAt.kind = "str" THEN last.res = TimesNotDatetime
          ELSE IF StartsAt.kind = "naive" \/ EndsAt.kind = "naive" THEN last.res = TimesNotAware
          ELSE IF StartsAt.t > EndsAt.t THEN last.res = EndsBeforeStart
          ELSE last.res \notin {TimesRequired, TimesNotDatetime, TimesNotAware, EndsBeforeStart}

\* C17 witness: an appointment with starts_at = ends_at was stored by
\* AppointmentService.create_appointment
C17_Witness ==
    /\ last.layer = "service" /\ last.on = "appointment" /\ last.op = "create"
    /\ last.calls = <<"create">>
    /\ StartsAt = EndsAt
    /\ \E a \in appointments : a.starts_at = StartsAt /\ a.ends_at = EndsAt /\ a.created_at = Aware(now)

\* the payload reached validate_status: its times passed
StatusChecked == TimesChecked /\ validate_starts_at_ends_at(StartsAt, EndsAt) = RetNone
Status == Get(last.validated, "status", None)
StatusRequired == ValidationError("status is required.")
StatusNotAllowed ==
    ValidationError("status must be one of the following: scheduled, completed, canceled")

\* an update of a stored appointment whose payload passes the checks made
\* before the status check and gives an allowed status
StatusUpdate ==
    /\ SvcStep("update") /\ last'.on = "appointment" /\ ~Absent
    /\ RowOf(Before, last'.id).status \in ALLOWED_APPOINTMENT_STATUSES
    /\ ~Has(last'.data, "id")
    /\ validate_starts_at_ends_at(Get(last'.data, "starts_at", NoneT),
                                  Get(last'.data, "ends_at", NoneT)) = RetNone
    /\ Get(last'.data, "status", None) \in ALLOWED_APPOINTMENT_STATUSES

\* C18: every appointment written through AppointmentService has a status
\* among scheduled, completed, canceled; a missing or other status is
\* rejected; an update from any allowed status to any allowed status, the
\* same one included, is not rejected by the status check, and the appointment
\* it returns carries the new status
C18_StatusAllowedAnyTransition ==
    /\ [](/\ \A a \in appointments : a.status \in ALLOWED_APPOINTMENT_STATUSES
          /\ StatusChecked =>
                IF Falsy(Status) THEN last.res = StatusRequired
                ELSE IF Status \notin ALLOWED_APPOINTMENT_STATUSES THEN last.res = StatusNotAllowed
                ELSE last.res \notin {StatusRequired, StatusNotAllowed})
    /\ [][StatusUpdate =>
            /\ Returned \notin {StatusRequired, StatusNotAllowed}
            /\ Returned.kind = "entity" =>
                  /\ Returned.entity.status = last'.data["status"]
                  /\ Returned.entity \in appointments']_vars

\* C18 witness: AppointmentService.update_appointment stored the status
\* canceled on an appointment created earlier
C18_Witness ==
    /\ last.layer = "service" /\ last.on = "appointment" /\ last.op = "update"
    /\ last.calls = <<"get_by_id", "update">>
    /\ Status = "canceled"
    /\ last.res.kind = "entity"
    /\ last.res.entity \in appointments
    /\ last.res.entity.status = "canceled"
    /\ last.res.entity.created_at # last.res.entity.updated_at

\* the payload names a user or a service that is not stored
DanglingReference(data) ==
    \/ Has(data, "user") /\ data["user"] \notin PkSet(users)
    \/ Has(data, "service") /\ data["service"] \notin PkSet(services)

\* C19: AppointmentService.create_appointment or update_appointment whose
\* user or service names no stored record fails with a ValidationError and
\* leaves the store as it was
C19_MissingReferenceFailsValidation ==
    [][(SvcStep("create") \/ SvcStep("update")) /\ last'.on = "appointment"
          /\ DanglingReference(last'.data) =>
            /\ Raised(Returned) /\ Returned.exc = "ValidationError"
            /\ tables' = tables]_vars

(***************************************************************************)
(* User creation                                                           *)
(***************************************************************************)
\* the payload passes every rule of UserServiceValidator and repeats no
\* stored username or email
AcceptableNewUser(data) ==
    /\ ~Raised(validate_user_data(StampCreate(data, now'), FALSE))
    /\ \A u \in users : u.username # data["username"] /\ u.email # data["email"]

\* C20: UserService.create_user with data that satisfies every rule of
\* UserServiceValidator stores exactly one new user, whose username and email
\* are the payload's
C20_ValidUserIsStored ==
    [][SvcStep("create") /\ last'.on = "user" /\ AcceptableNewUser(last'.data) =>
        /\ ~Raised(Returned)
        /\ \E u \in users' \ users :
              /\ users' = users \cup {u}
              /\ u.username = last'.data["username"]
              /\ u.email = last'.data["email"]]_vars

(***************************************************************************)
(* The users endpoint                                                      *)
(***************************************************************************)
ViewStep(op) == last'.layer = "view" /\ last'.op = op

\* C21: a PUT or PATCH on an existing user with a payload that passes
\* validation answers 200 and the stored user carries the payload's values; a
\* PATCH naming only first_name leaves every other field of the user as it was
C21_UpdateAnswers200 ==
    [][ViewStep("update") /\ ~Absent
          /\ ~Raised(validate_user_data(StampModified(last'.data, Clock), TRUE)) =>
            /\ Returned.kind = "response" /\ Returned.status = 200
            /\ \A k \in (DOMAIN last'.data) \ {"password", "updated_at"} :
                  RowOf(After, last'.id)[k] = last'.data[k]
            /\ (last'.partial /\ DOMAIN last'.data = {"first_name"}) =>
                  \A k \in UserFields \ {"first_name", "updated_at"} :
                      RowOf(After, last'.id)[k] = RowOf(Before, last'.id)[k]]_vars

(***************************************************************************)
(* Passwords                                                               *)
(***************************************************************************)
\* the plaintext passwords callers supply
SuppliedPasswords == {v.password : v \in UserValues}

\* C22: in every state of the store reachable through
\* UserRepository.create_user and update_user, the states between the
\* statements of one call included, no stored password is a supplied plaintext
C22_StoredPasswordHashed == \A u \in users : u.password \notin SuppliedPasswords

(***************************************************************************)
(* Validator rules                                                         *)
(***************************************************************************)
ValidatorCall(op) == last.layer = "validator" /\ last.op = op
PriceRequired == ValidationError("Service price is required.")
PriceNotPositive == ValidationError("Service price must be a positive number.")
PriceFormat ==
    ValidationError("Service price must have a maximum of 5 digits with up to 2 decimal places.")

\* C23: validate_price accepts a price exactly when it is positive and written
\* with at most 3 integer digits and at most 2 decimal places; a missing price
\* is rejected as required and a negative one as not positive, whatever its
\* format; 123.45, 12.34 and 123 are accepted, 12345.678, 123456 and 1234.567
\* are rejected for their format
C23_PriceAcceptedIffFormat ==
    /\ ValidatorCall("validate_price") =>
          LET price == last.data["price"]
              positive == ~price.none /\ ~price.neg /\ ~IsZero(price)
          IN  /\ last.res = RetNone <=> (positive /\ price.ip < 1000 /\ Len(price.fd) <= 2)
              /\ price.none => last.res = PriceRequired
              /\ (~price.none /\ price.neg /\ ~IsZero(price)) => last.res = PriceNotPositive
              /\ (positive /\ (price.ip >= 1000 \/ Len(price.fd) > 2)) => last.res = PriceFormat
    /\ \A ok \in {Dec(FALSE, 123, <<4, 5>>), Dec(FALSE, 12, <<3, 4>>), Dec(FALSE, 123, <<>>)} :
          validate_price(ok) = RetNone
    /\ \A bad \in {Dec(FALSE, 12345, <<6, 7, 8>>), Dec(FALSE, 123456, <<>>),
                   Dec(FALSE, 1234, <<5, 6, 7>>)} :
          validate_price(bad) = PriceFormat

\* C23 witness: validate_price was called with 123.45 and accepted it
C23_Witness ==
    /\ ValidatorCall("validate_price")
    /\ last.data["price"] = Dec(FALSE, 123, <<4, 5>>)
    /\ last.res = RetNone

\* the five rules of a password, in the order they are reported
PasswordRules(pw) ==
    <<Len(pw) >= 8,
      \E i \in 1..Len(pw) : CharAt(pw, i) \in UpperCase,
      \E i \in 1..Len(pw) : CharAt(pw, i) \in LowerCase,
      \E i \in 1..Len(pw) : CharAt(pw, i) \in Digits,
      \E i \in 1..Len(pw) : CharAt(pw, i) \in SpecialChars>>
PasswordMessages ==
    <<"Password must be at least 8 characters long.",
      "Password must contain at least one uppercase letter.",
      "Password must contain at least one lowercase letter.",
      "Password must contain at least one digit.",
      "Password must contain at least one special character.">>
FirstViolated(pw) ==
    LET broken == {i \in 1..5 : ~PasswordRules(pw)[i]}
    IN  IF broken = {} THEN 0 ELSE CHOOSE i \in broken : \A j \in broken : i <= j

\* C24: validate_password accepts a password exactly when it has at least 8
\* characters, an uppercase letter, a lowercase letter, a digit and a special
\* character, and reports the first rule violated in that order; a missing
\* password is rejected in create mode and skipped in update mode;
\* 'lowercase1!' lacks an uppercase letter and 'Valid1Password!' is accepted
C24_PasswordRulesInOrder ==
    /\ ValidatorCall("validate_password") =>
          LET pw == last.data["password"]
          IN  IF pw = None \/ pw = ""
              THEN last.res = IF last.data["is_update"] THEN RetNone
                              ELSE ValidationError("password is required.")
              ELSE /\ last.res = RetNone <=> \A i \in 1..5 : PasswordRules(pw)[i]
                   /\ FirstViolated(pw) # 0 =>
                         last.res = ValidationError(PasswordMessages[FirstViolated(pw)])
    /\ validate_password("lowercase1!", FALSE) = ValidationError(PasswordMessages[2])
    /\ validate_password("Valid1Password!", FALSE) = RetNone

\* C24 witness: a password breaking both the uppercase and the digit rule was
\* reported for the uppercase rule
C24_Witness ==
    /\ ValidatorCall("validate_password")
    /\ last.data["password"] = "bcde?{}|"
    /\ last.res = ValidationError(PasswordMessages[2])

\* what is said of a timestamp that is missing, no datetime, or naive
TimestampMessage(name, ts) ==
    IF ts = NoneT THEN ValidationError(name \o " is required.")
    ELSE IF ts.kind = "str" THEN ValidationError(name \o " must be a datetime object.")
    ELSE ValidationError(name \o " must be an aware datetime object with timezone information.")
TimestampMessages == {TimestampMessage(name, ts) : name \in {"created_at", "updated_at"},
                                                   ts \in {NoneT, NotADatetime, Naive(1)}}

\* C25: validate_<entity>_data of User, Service and Appointment requires
\* created_at and updated_at in create mode and only updated_at in update
\* mode, where no created_at, present or not, is a reason to reject; a required
\* timestamp that is missing, no datetime or naive is rejected, checked in
\* that order
C25_TimestampsRequiredByMode ==
    ValidatorCall("validate_data") =>
        LET data == last.data["data"]
            created_at == Get(data, "created_at", NoneT)
            updated_at == Get(data, "updated_at", NoneT)
        IN  IF ~last.data["is_update"] /\ created_at.kind # "aware"
            THEN last.res = TimestampMessage("created_at", created_at)
            ELSE IF updated_at.kind # "aware"
            THEN last.res = TimestampMessage("updated_at", updated_at)
            ELSE last.res \notin TimestampMessages

\* C25 witness: an appointment payload with a naive created_at passed
\* validation in update mode
C25_Witness ==
    /\ ValidatorCall("validate_data") /\ last.on = "appointment"
    /\ last.data["is_update"]
    /\ Get(last.data["data"], "created_at", NoneT) = Naive(1)
    /\ last.res = RetNone

(***************************************************************************)
(* All-or-nothing creates                                                  *)
(***************************************************************************)
\* C26: a Service.create call that returns normally has added exactly one
\* record to its table; when storage rejects the record the caller gets a
\* ValidationError, never a normal return with nothing stored
C26_NormalCreateStoredOne ==
    [][SvcStep("create") /\ ~Raised(Returned) =>
          \E r \in After \ Before : After = Before \cup {r}]_vars

(***************************************************************************)
(* Update beside delete                                                    *)
(***************************************************************************)
\* caller c's update returns normally in this step
UpdateReturns(c) ==
    /\ pending[c].pc = "checked" /\ pending'[c].pc = "done"
    /\ ~Raised(pending'[c].res)

\* C27: under any interleaving of two requests on the same id, a
\* Service.update that returns normally returns the updated, persisted entity,
\* also when a Service.delete removed the record after update's existence check
C27_UpdateReturnsPersistedEntity ==
    [][\A c \in Callers : UpdateReturns(c) =>
          /\ pending'[c].res.kind = "entity"
          /\ pending'[c].res.entity \in appointments']_vars

(***************************************************************************)
(* An appointment's own confirmation number                                *)
(***************************************************************************)
\* an update of a stored appointment whose payload passes the rules checked
\* before the confirmation number and repeats the appointment's own number
RepeatsOwnNumber ==
    /\ SvcStep("update") /\ last'.on = "appointment" /\ ~Absent
    /\ ~Has(last'.data, "id")
    /\ validate_starts_at_ends_at(Get(last'.data, "starts_at", NoneT),
                                  Get(last'.data, "ends_at", NoneT)) = RetNone
    /\ validate_status(Get(last'.data, "status", None)) = RetNone
    /\ Has(last'.data, "confirmation_number")
    /\ last'.data["confirmation_number"] # None
    /\ last'.data["confirmation_number"] = RowOf(Before, last'.id).confirmation_number

\* C28: AppointmentService.update_appointment with a payload that repeats the
\* appointment's own confirmation number is not rejected: the update returns
\* the appointment, which keeps its number
C28_OwnNumberNotDuplicate ==
    [][RepeatsOwnNumber =>
          /\ ~Raised(Returned)
          /\ Returned.kind = "entity" =>
                Returned.entity.confirmation_number = last'.data["confirmation_number"]]_vars

(***************************************************************************)
(* Frame of a repository update                                            *)
(***************************************************************************)
\* C29: a repository update that succeeds changes only the fields named by
\* the payload's keys (a User's password stored as its hash; with partial=True
\* keys whose value is None skipped): the fields of the record that the
\* payload does not name, and every other stored record, are unchanged
C29_UpdateChangesOnlyNamedFields ==
    [][(RepoStep("update") /\ Returned.kind = "entity") =>
          LET old == RowOf(Before, last'.id)
              new == Returned.entity
          IN  /\ \A k \in DOMAIN last'.data :
                    new[k] = Written(last'.on, k, last'.data, last'.partial, old)
              /\ \A k \in (DOMAIN old) \ (DOMAIN last'.data) : new[k] = old[k]
              /\ After \ {new} = Before \ {old}
              /\ \A e \in DOMAIN TableOf : e # last'.on => TableOf'[e] = TableOf[e]]_vars

\* C30: validate_duration accepts exactly the durations from 10 to 480
\* minutes inclusive; a missing duration is rejected as required, one below 10
\* with 'must be at least 10 minutes', one above 480 with 'must be no greater
\* than 480 minutes'
C30_DurationFrom10To480 ==
    ValidatorCall("validate_duration") =>
        LET duration == last.data["duration"]
        IN  IF duration.none THEN last.res = ValidationError("Service duration is required.")
            ELSE /\ last.res = RetNone <=> (duration.n >= 10 /\ duration.n <= 480)
                 /\ (duration.n > 0 /\ duration.n < 10) =>
                       last.res = ValidationError("Service duration must be at least 10 minutes.")
                 /\ duration.n > 480 =>
                       last.res = ValidationError("Service duration must be no greater than 480 minutes.")

====
